---- MODULE Spec2Model ----
(***************************************************************************)
(* Scoring engine and feedback tuner of bazi-lifekline                     *)
(* (src/score_model.py, src/backtest.py).                                  *)
(*                                                                         *)
(* Numbers.  The program computes with Python floats; the model computes   *)
(* with exact decimal fixed point:                                         *)
(*   - ten-god weights, deltas and clamp limits in thousandths             *)
(*     (0.35 is 350, the clamp limits are -800 and 800);                   *)
(*   - learning rates in hundredths (0.05 is 5);                           *)
(*   - annotation intensities in tenths (1.0 is 10);                       *)
(*     so learning_rate * intensity is a whole number of thousandths.      *)
(* Text.  A Python str is a sequence of one-character strings, so that     *)
(* strip() and the substring test "k in text" are computed, not assumed.   *)
(* Each Chinese character of the source is written as its pinyin, with a   *)
(* digit where two characters share a pinyin:                              *)
(*   guan 官  sha 杀  yin 印  xiao 枭  bi 比  jie 劫  shi 食  shang 伤       *)
(*   cai 财  cai2 才  xi 喜  zheng 正  hao 好  sheng 升  cheng 成  gong 功   *)
(*   bei 悲  fu 负  die 跌  cai3 裁  shi2 失                                 *)
(***************************************************************************)
EXTENDS Integers, Sequences, FiniteSets, TLC

VARIABLES
    heap,           \* object id -> dict: the module-level tables and the tuner's locals
    pc,             \* position of the running call: idle, loop, tuned, returned, raised,
                    \* signal, life, ohlc, kept (what the caller of the pipeline holds),
                    \* scored (a scoring function has returned)
    caller,         \* entry point of the running call
    liunian_df,     \* argument: the year table
    annotations,    \* argument: the annotation list
    learning_rate,  \* argument
    k,              \* number of annotations the loop has taken from the list
    strong,         \* local name: object id of the working strong table
    weak,           \* local name: object id of the working weak table
    adjustments,    \* local list of (shishen, delta)
    pre,            \* history: tables and adjustments before the last loop iteration
    error,          \* exception that ended the call, "" when none
    dayun_df,       \* argument: the era table
    config,         \* argument: the keyword arguments of build_year_signal
    base,           \* argument of build_life_index
    year_signal,    \* the signal series: year -> signal
    life_df,        \* result of build_life_index
    ohlc,           \* result of to_decade_ohlc
    ohlc_arg,       \* argument of to_decade_ohlc: the life table in the caller's row order
    sort_ties,      \* how this build's sort_values orders rows with equal keys
    fn,             \* a direct call of a scoring function: its name and arguments
    ret,            \* what that call returned
    previous,       \* history: arguments and results of an earlier run of the pipeline
    state,          \* app.py: st.session_state, the keys bazi_result, annotations and
                    \* backtest_result
    script_run      \* app.py: the last run of the script: the widget that triggered it,
                    \* the session keys it assigned, the exception that ended it

vars == <<heap, pc, caller, liunian_df, annotations, learning_rate, k,
          strong, weak, adjustments, pre, error,
          dayun_df, config, base, year_signal, life_df, ohlc, ohlc_arg,
          sort_ties, fn, ret, previous, state, script_run>>

----------------------------------------------------------------------------
(* Bounds of the model *)

MaxRows == 2        \* rows of a year table given to the tuner
MaxAnns == 2        \* annotations of a call
MaxPipeRows == 3    \* rows of a year table given to the forward pipeline
MaxEras == 2        \* rows of an era table given to _locate_dayun

----------------------------------------------------------------------------
(* Generic helpers *)

Max(a, b) == IF a >= b THEN a ELSE b
Min(a, b) == IF a <= b THEN a ELSE b

SeqsUpTo(S, n) == UNION {[1..m -> S] : m \in 0..n}

\* dict.get(key, default)
Get(d, key, default) == IF key \in DOMAIN d THEN d[key] ELSE default

\* d[key] = value on a dict: overwrites the key or adds it
Put(d, key, value) == [x \in DOMAIN d \cup {key} |-> IF x = key THEN value ELSE d[x]]

Whitespace == {" "}

RECURSIVE LStrip(_)
LStrip(s) == IF s # <<>> /\ Head(s) \in Whitespace THEN LStrip(Tail(s)) ELSE s

RECURSIVE RStrip(_)
RStrip(s) ==
    IF s # <<>> /\ s[Len(s)] \in Whitespace THEN RStrip(SubSeq(s, 1, Len(s) - 1)) ELSE s

\* str.strip()
Strip(s) == RStrip(LStrip(s))

\* Python's "tok in text" on strings
Contains(text, tok) ==
    \E i \in 0..(Len(text) - Len(tok)) : SubSeq(text, i + 1, i + Len(tok)) = tok

----------------------------------------------------------------------------
(* Module-level tables of score_model.py (thousandths) *)

STRONG_TEN_GOD_WEIGHTS ==
    (<<"guan">> :> -400) @@ (<<"sha">> :> -400) @@ (<<"yin">> :> -300) @@ (<<"xiao">> :> -300) @@
    (<<"bi">> :> 350) @@ (<<"jie">> :> 350) @@ (<<"shi">> :> 300) @@ (<<"shang">> :> 300) @@
    (<<"cai">> :> 250) @@ (<<"cai2">> :> 250)

WEAK_TEN_GOD_WEIGHTS ==
    (<<"guan">> :> -350) @@ (<<"sha">> :> -350) @@ (<<"yin">> :> 400) @@ (<<"xiao">> :> 400) @@
    (<<"bi">> :> 350) @@ (<<"jie">> :> 350) @@ (<<"shi">> :> -300) @@ (<<"shang">> :> -300) @@
    (<<"cai">> :> -250) @@ (<<"cai2">> :> -250)

----------------------------------------------------------------------------
(* backtest.py *)

POSITIVE_TOKENS == {<<"xi">>, <<"zheng">>, <<"hao">>, <<"sheng">>, <<"cheng", "gong">>}
NEGATIVE_TOKENS == {<<"bei">>, <<"fu">>, <<"die">>, <<"cai3">>, <<"shi2">>}

\* Annotation.sentiment with intensity > 0 in place of intensity >= 0
sentiment_strict(ann) ==
    LET outcome == Strip(ann.outcome) IN
    IF \E t \in POSITIVE_TOKENS : Contains(outcome, t) THEN 1
    ELSE IF \E t \in NEGATIVE_TOKENS : Contains(outcome, t) THEN -1
    ELSE IF ann.intensity > 0 THEN 1 ELSE -1

\* Annotation.sentiment
sentiment(ann) ==
    LET outcome == Strip(ann.outcome) IN
    IF \E t \in POSITIVE_TOKENS : Contains(outcome, t) THEN 1
    ELSE IF \E t \in NEGATIVE_TOKENS : Contains(outcome, t) THEN -1
    ELSE IF ann.intensity >= 0 THEN 1 ELSE -1

CLAMP_LOWER == -800
CLAMP_UPPER == 800

ClampNoUpper(value) == Max(CLAMP_LOWER, value)

_clamp(value) == Max(CLAMP_LOWER, Min(CLAMP_UPPER, value))

\* Object ids of the heap: the two module-level dicts and the tuner's two local dicts
G_STRONG == "STRONG_TEN_GOD_WEIGHTS"
G_WEAK == "WEAK_TEN_GOD_WEIGHTS"
L_STRONG == "strong"
L_WEAK == "weak"
ObjIds == {G_STRONG, G_WEAK, L_STRONG, L_WEAK}

EmptyDict == <<>>

----------------------------------------------------------------------------
(* Exact arithmetic for the life index                                      *)
(* Signals, cyclical amplitudes and keyword values are in millionths of a   *)
(* percent point; index values are reduced fractions [n, d] with d > 0.     *)

Micro == 1000 * 1000
Centi == Micro \div 100
Deci == Micro \div 10

Abs(a) == IF a < 0 THEN -a ELSE a

RECURSIVE GCD(_, _)
GCD(a, b) == IF b = 0 THEN a ELSE GCD(b, a % b)

Rat(n, d) ==
    LET g == GCD(Abs(n), Abs(d))
        sgn == IF d < 0 THEN -1 ELSE 1
    IN [n |-> sgn * (n \div g), d |-> sgn * (d \div g)]

RatOf(i) == [n |-> i, d |-> 1]

\* x * y, reduced before multiplying
RatMul(x, y) ==
    LET g1 == GCD(Abs(x.n), y.d)
        g2 == GCD(Abs(y.n), x.d)
    IN Rat((x.n \div g1) * (y.n \div g2), (x.d \div g2) * (y.d \div g1))

LCM(a, b) == (a \div GCD(a, b)) * b

RatLeq(x, y) ==
    LET l == LCM(x.d, y.d) IN x.n * (l \div x.d) <= y.n * (l \div y.d)

RatMaxOf(S) == CHOOSE x \in S : \A y \in S : RatLeq(y, x)
RatMinOf(S) == CHOOSE x \in S : \A y \in S : RatLeq(x, y)

----------------------------------------------------------------------------
(* score_model.py: tables                                                   *)
(*   he 合  sheng2 生  lu 禄  gui 贵  xing 刑  chong 冲  po 破  hai 害       *)
(*   kong 空  wang 亡  san 三  liu 六  ban 半  wo 我  tong 同  ke 克         *)

\* hundredths
WUXING_MULTIPLIER ==
    (<<"sheng2", "wo">> :> 20) @@ (<<"tong", "wo">> :> 10) @@ (<<"wo", "ke">> :> 5) @@
    (<<"ke", "wo">> :> -15) @@ (<<"wo", "sheng2">> :> -10)

\* whole points
RELATION_BASE_SCORE ==
    (<<"san", "he">> :> 6) @@ (<<"liu", "he">> :> 4) @@ (<<"ban", "he">> :> 2) @@
    (<<"chong">> :> -5) @@ (<<"xing">> :> -3) @@ (<<"hai">> :> -2) @@ (<<"po">> :> -1)

DEFAULT_RISK ==
    (<<"xing">> :> 90 * Centi) @@ (<<"chong">> :> 110 * Centi) @@ (<<"po">> :> 80 * Centi) @@
    (<<"hai">> :> 100 * Centi) @@ (<<"jie">> :> 60 * Centi) @@
    (<<"kong", "wang">> :> 120 * Centi)

DEFAULT_BOOST ==
    (<<"he">> :> 90 * Centi) @@ (<<"sheng2">> :> 60 * Centi) @@ (<<"lu">> :> 80 * Centi) @@
    (<<"xi">> :> 60 * Centi) @@ (<<"cai">> :> 70 * Centi) @@ (<<"guan">> :> 80 * Centi) @@
    (<<"gui">> :> 90 * Centi)

(* The tuner in the arithmetic of Python floats                             *)
(* A float is sign and magnitude, the magnitude counted in units of 2^-60   *)
(* and held in two limbs of 30 bits: hi * 2^30 + lo. An addition is the     *)
(* exact sum rounded to 53 significant bits, ties to even.                  *)

Limb == 1073741824

Double(neg, hi, lo) == [neg |-> neg, hi |-> hi, lo |-> lo]

\* Number of bits of a limb value
BitLength(n) == Cardinality({i \in 0..30 : 2 ^ i <= n})

MagLeq(x, y) == x.hi < y.hi \/ (x.hi = y.hi /\ x.lo <= y.lo)

\* The exact sum of two floats
ExactAdd(x, y) ==
    IF x.neg = y.neg
    THEN Double(x.neg, x.hi + y.hi + ((x.lo + y.lo) \div Limb), (x.lo + y.lo) % Limb)
    ELSE LET big == IF MagLeq(y, x) THEN x ELSE y
             small == IF MagLeq(y, x) THEN y ELSE x
             borrow == IF big.lo < small.lo THEN 1 ELSE 0
             hi == big.hi - small.hi - borrow
             lo == big.lo - small.lo + borrow * Limb
         IN Double(big.neg /\ ~(hi = 0 /\ lo = 0), hi, lo)

\* Rounding to 53 significant bits, ties to even; at most 7 bits of lo are dropped
RoundToDouble(x) ==
    LET bits == IF x.hi > 0 THEN 30 + BitLength(x.hi) ELSE BitLength(x.lo) IN
    IF bits <= 53 THEN x
    ELSE LET unit == 2 ^ (bits - 53)
             keep == x.lo \div unit
             rest == x.lo % unit
             up == IF 2 * rest > unit \/ (2 * rest = unit /\ keep % 2 = 1) THEN 1 ELSE 0
             lo == (keep + up) * unit
         IN Double(x.neg, x.hi + (lo \div Limb), lo % Limb)

\* x + y on floats
FAdd(x, y) == RoundToDouble(ExactAdd(x, y))

FNeg(x) == Double(~x.neg /\ ~(x.hi = 0 /\ x.lo = 0), x.hi, x.lo)

\* x <= y on floats
FLeq(x, y) ==
    IF x.neg /\ ~y.neg THEN TRUE
    ELSE IF ~x.neg /\ y.neg THEN FALSE
    ELSE IF x.neg THEN MagLeq(y, x) ELSE MagLeq(x, y)

\* The literals 0.8 and 0.05
F_0_8 == Double(FALSE, 858993459, 214748416)

F_0_05 == Double(FALSE, 53687091, 214748368)

\* _clamp(value) with lower = -0.8, upper = 0.8
FClamp(value) ==
    LET capped == IF FLeq(F_0_8, value) THEN F_0_8 ELSE value
    IN IF FLeq(capped, FNeg(F_0_8)) THEN FNeg(F_0_8) ELSE capped

\* The module tables as floats
STRONG_FLOATS ==
    (<<"guan">> :> Double(TRUE, 429496729, 644245120)) @@
    (<<"sha">> :> Double(TRUE, 429496729, 644245120)) @@
    (<<"yin">> :> Double(TRUE, 322122547, 214748352)) @@
    (<<"xiao">> :> Double(TRUE, 322122547, 214748352)) @@
    (<<"bi">> :> Double(FALSE, 375809638, 429496704)) @@
    (<<"jie">> :> Double(FALSE, 375809638, 429496704)) @@
    (<<"shi">> :> Double(FALSE, 322122547, 214748352)) @@
    (<<"shang">> :> Double(FALSE, 322122547, 214748352)) @@
    (<<"cai">> :> Double(FALSE, 268435456, 0)) @@
    (<<"cai2">> :> Double(FALSE, 268435456, 0))

WEAK_FLOATS ==
    (<<"guan">> :> Double(TRUE, 375809638, 429496704)) @@
    (<<"sha">> :> Double(TRUE, 375809638, 429496704)) @@
    (<<"yin">> :> Double(FALSE, 429496729, 644245120)) @@
    (<<"xiao">> :> Double(FALSE, 429496729, 644245120)) @@
    (<<"bi">> :> Double(FALSE, 375809638, 429496704)) @@
    (<<"jie">> :> Double(FALSE, 375809638, 429496704)) @@
    (<<"shi">> :> Double(TRUE, 322122547, 214748352)) @@
    (<<"shang">> :> Double(TRUE, 322122547, 214748352)) @@
    (<<"cai">> :> Double(TRUE, 268435456, 0)) @@
    (<<"cai2">> :> Double(TRUE, 268435456, 0))

\* delta = learning_rate * (sentiment * intensity) for the default learning rate and
\* an intensity of 1.0, 2.0 or 4.0: the products are exact
FDelta(ann) ==
    LET once == IF sentiment(ann) = 1 THEN F_0_05 ELSE FNeg(F_0_05)
        twice == ExactAdd(once, once)
    IN CASE ann.intensity = 10 -> once
         [] ann.intensity = 20 -> twice
         [] ann.intensity = 40 -> ExactAdd(twice, twice)

\* Only the last annotation changes the entry
FTunedLastOnly(entry, anns) ==
    IF anns = <<>> THEN entry
    ELSE FClamp(FAdd(entry, FDelta(anns[Len(anns)])))

\* An entry after the loop over annotations that all change it
RECURSIVE FTuned(_, _)
FTuned(entry, anns) ==
    IF anns = <<>> THEN entry
    ELSE FTuned(FClamp(FAdd(entry, FDelta(Head(anns)))), Tail(anns))

\* An optional dict argument: None, or a dict
None == [none |-> TRUE, items |-> <<>>]
Some(d) == [none |-> FALSE, items |-> d]

\* Python truth value of an optional dict: None and {} are false
Truthy(x) == ~x.none /\ DOMAIN x.items # {}

\* The sum of d[key] over the keys of d that occur in text
RECURSIVE SumPresent(_, _, _)
SumPresent(d, keys, text) ==
    IF keys = {} THEN 0
    ELSE LET key == CHOOSE x \in keys : TRUE
         IN (IF Contains(text, key) THEN d[key] ELSE 0) + SumPresent(d, keys \ {key}, text)

\* The number of places of text at which tok occurs
Occurrences(text, tok) ==
    Cardinality({i \in 0..(Len(text) - Len(tok)) : SubSeq(text, i + 1, i + Len(tok)) = tok})

\* The sum of d[key] over the occurrences in text of the keys of d
RECURSIVE SumOccurrences(_, _, _)
SumOccurrences(d, keys, text) ==
    IF keys = {} THEN 0
    ELSE LET key == CHOOSE x \in keys : TRUE
         IN Occurrences(text, key) * d[key] + SumOccurrences(d, keys \ {key}, text)

\* _score_keywords counting a key once per occurrence
score_keywords_per_occurrence(text, boost, risk) ==
    SumOccurrences(boost, DOMAIN boost, text) - SumOccurrences(risk, DOMAIN risk, text)

\* _score_keywords
_score_keywords(text, boost, risk) ==
    SumPresent(boost, DOMAIN boost, text) - SumPresent(risk, DOMAIN risk, text)

\* The interpolation with the strength index as given
blend_unclamped(h, strength_index, special_pattern) ==
    IF Truthy(special_pattern)
    THEN [key \in DOMAIN special_pattern.items |-> 10 * special_pattern.items[key]]
    ELSE [key \in DOMAIN h[G_STRONG] |->
             strength_index * Get(h[G_STRONG], key, 0)
               + (10 - strength_index) * Get(h[G_WEAK], key, 0)]

\* blend_ten_god_weights: thousandths * 10 (the strength index is in tenths)
blend_ten_god_weights(h, strength_index, special_pattern) ==
    IF Truthy(special_pattern)
    THEN [key \in DOMAIN special_pattern.items |-> 10 * special_pattern.items[key]]
    ELSE LET i == Max(0, Min(10, strength_index)) IN
         [key \in DOMAIN h[G_STRONG] |->
             i * Get(h[G_STRONG], key, 0) + (10 - i) * Get(h[G_WEAK], key, 0)]

\* base * multi, without the 1.0
score_multiplier_only(h, shishen, wuxing_relation, strength_index, special_pattern) ==
    Get(blend_ten_god_weights(h, strength_index, special_pattern), shishen, 0)
        * Get(WUXING_MULTIPLIER, wuxing_relation, 0)

\* score_ten_god: millionths
score_ten_god(h, shishen, wuxing_relation, strength_index, special_pattern) ==
    LET weights == blend_ten_god_weights(h, strength_index, special_pattern)
        base_score == Get(weights, shishen, 0)
        multi == Get(WUXING_MULTIPLIER, wuxing_relation, 0)
    IN base_score * (100 + multi)

\* score_relation counting each distinct token once
RECURSIVE score_relation_distinct(_, _)
score_relation_distinct(relations, trigger_coeff) ==
    IF relations = <<>> THEN 0
    ELSE (IF \E i \in 2..Len(relations) : relations[i] = Head(relations) THEN 0
          ELSE Get(RELATION_BASE_SCORE, Head(relations), 0) * trigger_coeff * Deci)
           + score_relation_distinct(Tail(relations), trigger_coeff)

\* score_relation: millionths (the trigger coefficient is in tenths)
RECURSIVE score_relation(_, _)
score_relation(relations, trigger_coeff) ==
    IF relations = <<>> THEN 0
    ELSE Get(RELATION_BASE_SCORE, Head(relations), 0) * trigger_coeff * Deci
           + score_relation(Tail(relations), trigger_coeff)

----------------------------------------------------------------------------
(* score_model.py: tables of rows                                           *)
(* A DataFrame is [has_columns, rows]; sort_values leaves the order of rows *)
(* with equal keys open, so a sorted table is any arrangement of the rows   *)
(* in ascending key order.                                                  *)

Orders(n) == {p \in [1..n -> 1..n] : \A i, j \in 1..n : i # j => p[i] # p[j]}

\* sort_values does not promise an order for rows with equal keys (its default kind
\* is "quicksort"), but a build's sort is a function of its input: a build either keeps
\* such rows in input order or returns them in the opposite order
TieOrders == {"kept", "reversed"}

\* A sort that may order rows with equal keys differently on every call
SortedAnyTies(rows, keys) ==
    {[i \in 1..Len(rows) |-> rows[p[i]]] : p \in
        {q \in Orders(Len(rows)) :
            \A i \in 1..(Len(rows) - 1) : keys[q[i]] <= keys[q[i + 1]]}}

\* The arrangement of rows in which keys, the rows' sort keys, ascend
SortedBy(rows, keys) ==
    {[i \in 1..Len(rows) |-> rows[p[i]]] : p \in
        {q \in Orders(Len(rows)) :
            \A i \in 1..(Len(rows) - 1) :
                \/ keys[q[i]] < keys[q[i + 1]]
                \/ /\ keys[q[i]] = keys[q[i + 1]]
                   /\ IF sort_ties = "kept" THEN q[i] < q[i + 1] ELSE q[i] > q[i + 1]}}

\* The rows as given
InputOrder(rows) == {rows}

\* df.sort_values("year")
SortedByYear(rows) == SortedBy(rows, [i \in 1..Len(rows) |-> rows[i].year])

\* dayun_df.sort_values("start_age")
SortedByStartAge(rows) == SortedBy(rows, [i \in 1..Len(rows) |-> rows[i].start_age])

NoRow == [found |-> FALSE]

\* _locate_dayun with head(1) in place of tail(1)
locate_head(age, sorted_dayun) ==
    LET current == SelectSeq(sorted_dayun, LAMBDA r : r.start_age <= age) IN
    IF current = <<>> THEN NoRow ELSE [found |-> TRUE, row |-> current[1]]

\* _locate_dayun on the sorted era rows: the last row with start_age <= age
_locate_dayun(age, sorted_dayun) ==
    LET current == SelectSeq(sorted_dayun, LAMBDA r : r.start_age <= age) IN
    IF current = <<>> THEN NoRow ELSE [found |-> TRUE, row |-> current[Len(current)]]

\* str.split(sep) on a one-character separator
RECURSIVE Split(_, _)
Split(text, sep) ==
    IF \E i \in 1..Len(text) : text[i] = sep
    THEN LET i == CHOOSE i \in 1..Len(text) :
                      text[i] = sep /\ \A j \in 1..(i - 1) : text[j] # sep
         IN <<SubSeq(text, 1, i - 1)>> \o Split(SubSeq(text, i + 1, Len(text)), sep)
    ELSE <<text>>

RECURSIVE Flatten(_)
Flatten(ss) == IF ss = <<>> THEN <<>> ELSE Head(ss) \o Flatten(Tail(ss))

\* [p for token in raw.split("/") for p in token.split(" ") if p]
SplitRelations(raw) ==
    LET tokens == Split(raw, "/")
        parts == Flatten([i \in 1..Len(tokens) |-> Split(tokens[i], " ")])
    IN SelectSeq(parts, LAMBDA p : p # <<>>)

\* A "relations" cell: [kind |-> "list", items], [kind |-> "str", text] or [kind |-> "none"]
RowRelations(cell) ==
    IF cell.kind = "str" THEN SplitRelations(cell.text)
    ELSE IF cell.kind = "list" THEN cell.items ELSE <<>>

\* cyc with cycle // 2 in place of cycle / 2
CycFloorHalf(idx, cfg) ==
    IF idx % cfg.cycle < cfg.cycle \div 2 THEN cfg.base_up ELSE -cfg.base_down

\* cyc = base_up if (idx % cycle) < cycle / 2 else -base_down; cycle / 2 is the exact
\* half, so the test is 2 * (idx % cycle) < cycle
Cyc(idx, cfg) ==
    IF 2 * (idx % cfg.cycle) < cfg.cycle THEN cfg.base_up ELSE -cfg.base_down

\* The description of the era found, "" when none
DayunDesc(dayun) == IF dayun.found THEN dayun.row.desc ELSE <<>>

\* The drag taken once per risk key of the era description
DayunDragPerKey(dayun_desc, risk, cfg) ==
    Cardinality({key \in DOMAIN risk : Contains(dayun_desc, key)}) * cfg.dayun_risk_weight

\* if any(k in dayun_desc for k in risk.keys()): keyword_score -= dayun_risk_weight
DayunDrag(dayun_desc, risk, cfg) ==
    IF \E key \in DOMAIN risk : Contains(dayun_desc, key) THEN cfg.dayun_risk_weight ELSE 0

\* The row's own relation tokens followed by those of the era found, when it has a list
Relations(row, dayun) ==
    IF dayun.found /\ dayun.row.relations.kind = "list"
    THEN RowRelations(row.relations) \o dayun.row.relations.items
    ELSE RowRelations(row.relations)

\* ten_score: score_ten_god(...) * ten_god_weight for a non-empty stripped shishen
TenScore(h, row, cfg) ==
    LET shishen == Strip(row.shishen)
        wuxing_relation == Strip(row.wuxing_relation)
    IN IF shishen # <<>>
       THEN score_ten_god(h, shishen, wuxing_relation, cfg.strength_index,
                          cfg.special_pattern) * cfg.ten_god_weight
       ELSE 0

\* The signal of one row (build_year_signal's loop body), in millionths
RowSignal(h, idx, row, sorted_dayun, cfg) ==
    LET boost == IF Truthy(cfg.boost) THEN cfg.boost.items ELSE DEFAULT_BOOST
        risk == IF Truthy(cfg.risk) THEN cfg.risk.items ELSE DEFAULT_RISK
        cyc == Cyc(idx, cfg)
        dayun == _locate_dayun(row.age, sorted_dayun)
        dayun_desc == DayunDesc(dayun)
        keyword_score == _score_keywords(row.desc \o <<" ">> \o dayun_desc, boost, risk)
        ten_score == TenScore(h, row, cfg)
        relations == Relations(row, dayun)
        relation_score == IF relations # <<>>
                          THEN score_relation(relations, cfg.relation_trigger) ELSE 0
        drag == DayunDrag(dayun_desc, risk, cfg)
    IN cyc + (keyword_score - drag) + ten_score + relation_score

\* build_year_signal on the sorted rows: the dict year -> signal, later rows overwriting
RECURSIVE SignalsUpTo(_, _, _, _, _)
SignalsUpTo(h, n, sorted_rows, sorted_dayun, cfg) ==
    IF n = 0 THEN EmptyDict
    ELSE Put(SignalsUpTo(h, n - 1, sorted_rows, sorted_dayun, cfg),
             sorted_rows[n].year,
             RowSignal(h, n - 1, sorted_rows[n], sorted_dayun, cfg))

build_year_signal(h, sorted_rows, sorted_dayun, cfg) ==
    SignalsUpTo(h, Len(sorted_rows), sorted_rows, sorted_dayun, cfg)

\* v * (1.0 + float(sig) / 100.0)
Compound(v, sig) == RatMul(v, Rat(100 * Micro + sig, 100 * Micro))

\* build_life_index on the sorted rows: (year, year_signal, life_index) per row;
\* a year that the signal series lacks gets 0 (fillna)
RECURSIVE LifeUpTo(_, _, _, _)
LifeUpTo(n, sorted_rows, series, start) ==
    IF n = 0 THEN <<>>
    ELSE LET before == LifeUpTo(n - 1, sorted_rows, series, start)
             v == IF n = 1 THEN RatOf(start) ELSE before[n - 1].life_index
             sig == Get(series, sorted_rows[n].year, 0)
         IN Append(before, [year |-> sorted_rows[n].year, year_signal |-> sig,
                            life_index |-> Compound(v, sig)])

\* The default base 100.0 whatever base is passed
build_life_index_default_base(sorted_rows, series, start) ==
    LifeUpTo(Len(sorted_rows), sorted_rows, series, 100)

build_life_index(sorted_rows, series, start) ==
    LifeUpTo(Len(sorted_rows), sorted_rows, series, start)

\* The next multiple of ten at or above the year
BucketRoundUp(year) == ((year + 9) \div 10) * 10

\* (life_df["year"] // 10) * 10
Bucket(year) == (year \div 10) * 10

\* open and close exchanged
BarOpenIsLast(sorted_life, bucket) ==
    LET s == SelectSeq(sorted_life, LAMBDA r : Bucket(r.year) = bucket)
        values == {s[i].life_index : i \in 1..Len(s)}
    IN [decade |-> bucket, open |-> s[Len(s)].life_index, high |-> RatMaxOf(values),
        low |-> RatMinOf(values), close |-> s[1].life_index]

\* g.agg(open="first", high="max", low="min", close="last") of one bucket
Bar(sorted_life, bucket) ==
    LET s == SelectSeq(sorted_life, LAMBDA r : Bucket(r.year) = bucket)
        values == {s[i].life_index : i \in 1..Len(s)}
    IN [decade |-> bucket, open |-> s[1].life_index, high |-> RatMaxOf(values),
        low |-> RatMinOf(values), close |-> s[Len(s)].life_index]

\* The buckets in ascending order
RECURSIVE Ascending(_)
Ascending(S) ==
    IF S = {} THEN <<>>
    ELSE LET m == CHOOSE x \in S : \A y \in S : x <= y IN <<m>> \o Ascending(S \ {m})

\* to_decade_ohlc on the sorted life table
to_decade_ohlc(sorted_life) ==
    LET buckets == Ascending({Bucket(sorted_life[i].year) : i \in 1..Len(sorted_life)})
    IN [b \in 1..Len(buckets) |-> Bar(sorted_life, buckets[b])]

----------------------------------------------------------------------------
(* backtest.py: the tuner *)

\* An assignment x = src binds x to the object src itself
DictAlias(src, fresh) == src

\* dict(src): the object the new name is bound to, a fresh object holding src's items
DictCopy(src, fresh) == fresh

Snapshot(h, s, w, adj) == [strong |-> h[s], weak |-> h[w], adjustments |-> adj]

\* The table itself, not filtered by year
MatchRowsAny(df, year) == df.rows

\* liunian_df[liunian_df["year"] == ann.year]
MatchRows(df, year) == SelectSeq(df.rows, LAMBDA r : r.year = year)

\* delta of one annotation (thousandths)
\* The delta without the sentiment: learning_rate * intensity
DeltaOfIntensity(ann, lr) == lr * ann.intensity

Delta(ann, lr) == lr * (sentiment(ann) * ann.intensity)

\* StepKind without the test "if shishen in strong"
StepKindNoKeyTest(df, ann, h, s) ==
    LET match == SelectSeq(df.rows, LAMBDA r : r.year = ann.year) IN
    IF match = <<>> THEN "unmatched"
    ELSE IF Strip(match[1].shishen) = <<>> THEN "empty" ELSE "applied"

\* What one loop iteration does for an annotation, on tables with their columns:
\* "unmatched", "empty" (no actor code), "unknown" (code not a key), "applied"
StepKind(df, ann, h, s) ==
    LET match == MatchRows(df, ann.year) IN
    IF match = <<>> THEN "unmatched"
    ELSE LET shishen == Strip(match[1].shishen) IN
         IF shishen = <<>> THEN "empty"
         ELSE IF shishen \in DOMAIN h[s] THEN "applied" ELSE "unknown"

\* The actor code an iteration reads: the first matching row's, stripped
StepShishen(df, ann) == Strip(MatchRows(df, ann.year)[1].shishen)

\* Only the strong table is updated
StepHeapStrongOnly(h, s, w, shishen, delta) ==
    [h EXCEPT ![s] = Put(h[s], shishen, _clamp(Get(h[s], shishen, 0) + delta))]

\* Each annotation applied to the entries of the module tables, not to the current ones
StepHeapFromDefaults(h, s, w, shishen, delta) ==
    LET h1 == [h EXCEPT ![s] = Put(h[s], shishen, _clamp(Get(h[G_STRONG], shishen, 0) + delta))]
    IN [h1 EXCEPT ![w] = Put(h1[w], shishen, _clamp(Get(h[G_WEAK], shishen, 0) + delta))]

\* strong[shishen] = _clamp(...); weak[shishen] = _clamp(...), in this order
StepHeap(h, s, w, shishen, delta) ==
    LET h1 == [h EXCEPT ![s] = Put(h[s], shishen, _clamp(Get(h[s], shishen, 0) + delta))]
    IN [h1 EXCEPT ![w] = Put(h1[w], shishen, _clamp(Get(h1[w], shishen, 0) + delta))]

tuneVars == <<annotations, learning_rate, k, strong, weak, adjustments, pre>>
pipeVars == <<dayun_df, config, base, year_signal, life_df, ohlc, ohlc_arg>>
otherVars == <<sort_ties, fn, ret, previous, state, script_run>>

\* tune_ten_god_weights is entered, from outside or from apply_feedback_loop
TuneCall(df, anns, lr, who) ==
    /\ pc' = "loop"
    /\ caller' = who
    /\ liunian_df' = df
    /\ annotations' = anns
    /\ learning_rate' = lr
    /\ k' = 0
    /\ strong' = DictCopy(G_STRONG, L_STRONG)
    /\ weak' = DictCopy(G_WEAK, L_WEAK)
    /\ heap' = [heap EXCEPT ![strong'] = heap[G_STRONG], ![weak'] = heap[G_WEAK]]
    /\ adjustments' = <<>>
    /\ pre' = Snapshot(heap', strong', weak', <<>>)
    /\ error' = ""

\* One iteration of "for ann in annotations"
TuneStep ==
    /\ pc = "loop"
    /\ k < Len(annotations)
    /\ LET ann == annotations[k + 1] IN
       IF ~liunian_df.has_columns
       THEN \* liunian_df["year"] on a table without that column
            /\ pc' = "raised"
            /\ error' = "KeyError"
            /\ UNCHANGED <<heap, adjustments>>
       ELSE /\ IF StepKind(liunian_df, ann, heap, strong) = "applied"
               THEN LET shishen == StepShishen(liunian_df, ann)
                        delta == Delta(ann, learning_rate)
                    IN /\ heap' = StepHeap(heap, strong, weak, shishen, delta)
                       /\ adjustments' = Append(adjustments, <<shishen, delta>>)
               ELSE UNCHANGED <<heap, adjustments>>
            /\ UNCHANGED <<pc, error>>
    /\ k' = k + 1
    /\ pre' = Snapshot(heap, strong, weak, adjustments)
    /\ UNCHANGED <<caller, liunian_df, annotations, learning_rate, strong, weak>>
    /\ UNCHANGED pipeVars
    /\ UNCHANGED otherVars

\* "return strong, weak, adjustments"
TuneReturn ==
    /\ pc = "loop"
    /\ k = Len(annotations)
    /\ pc' = IF caller = "tune_ten_god_weights" THEN "returned" ELSE "tuned"
    /\ UNCHANGED <<heap, caller, liunian_df, error>>
    /\ UNCHANGED tuneVars
    /\ UNCHANGED pipeVars
    /\ UNCHANGED otherVars

\* Parameter names of build_year_signal
BuildYearSignalParams ==
    {"liunian_df", "dayun_df", "base_up", "base_down", "cycle", "boost", "risk",
     "dayun_risk_weight", "strength_index", "special_pattern", "relation_trigger",
     "ten_god_weight"}

\* Names apply_feedback_loop passes to build_year_signal (the first two by position)
ApplyCallNames ==
    {"liunian_df", "dayun_df", "base_up", "base_down", "cycle", "boost", "risk",
     "dayun_risk_weight", "strength_index", "special_pattern", "relation_trigger",
     "ten_god_weight", "strong_weights", "weak_weights"}

\* Python binds a call's keywords to the callee's parameters, or raises TypeError
BindsTo(names, params) == names \subseteq params

\* apply_feedback_loop after the tuner returned: build_year_signal is called with
\* the tuned tables as keywords, then build_life_index, then the result is returned
ApplyBuildYearSignal ==
    /\ pc = "tuned"
    /\ caller = "apply_feedback_loop"
    /\ IF ~BindsTo(ApplyCallNames, BuildYearSignalParams)
       THEN /\ pc' = "raised"
            /\ error' = "TypeError"
            /\ UNCHANGED <<year_signal, life_df>>
       ELSE IF ~liunian_df.has_columns
       THEN /\ pc' = "raised"
            /\ error' = "KeyError"
            /\ UNCHANGED <<year_signal, life_df>>
       ELSE \E s \in SortedByYear(liunian_df.rows), e \in SortedByStartAge(dayun_df.rows) :
            /\ year_signal' = build_year_signal(heap, s, e, config)
            /\ life_df' = build_life_index(s, year_signal', base)
            /\ pc' = "returned"
            /\ error' = ""
    /\ UNCHANGED <<heap, caller, liunian_df, dayun_df, config, base, ohlc, ohlc_arg>>
    /\ UNCHANGED tuneVars
    /\ UNCHANGED otherVars

\* build_year_signal called by a user of the module
BuildYearSignal(df, dayun, cfg) ==
    /\ caller' = "build_year_signal"
    /\ liunian_df' = df
    /\ dayun_df' = dayun
    /\ config' = cfg
    /\ IF ~df.has_columns
       THEN \* sort_values("year") on a table without that column
            /\ pc' = "raised"
            /\ error' = "KeyError"
            /\ year_signal' = EmptyDict
       ELSE \E s \in SortedByYear(df.rows), e \in SortedByStartAge(dayun.rows) :
            /\ year_signal' = build_year_signal(heap, s, e, cfg)
            /\ pc' = "signal"
            /\ error' = ""
    /\ UNCHANGED <<heap, base, life_df, ohlc, ohlc_arg>>
    /\ UNCHANGED tuneVars
    /\ UNCHANGED otherVars

\* A user of the module holds a year table and a signal series of their own
SupplyYearSignal(df, series) ==
    /\ caller' = "caller"
    /\ liunian_df' = df
    /\ year_signal' = series
    /\ pc' = "signal"
    /\ UNCHANGED <<heap, error, dayun_df, config, base, life_df, ohlc, ohlc_arg>>
    /\ UNCHANGED tuneVars
    /\ UNCHANGED otherVars

\* build_life_index(liunian_df, year_signal, base=b)
BuildLifeIndex(b) ==
    /\ pc = "signal"
    /\ base' = b
    /\ IF ~liunian_df.has_columns
       THEN /\ pc' = "raised"
            /\ error' = "KeyError"
            /\ UNCHANGED life_df
       ELSE \E s \in SortedByYear(liunian_df.rows) :
            /\ life_df' = build_life_index(s, year_signal, b)
            /\ pc' = "life"
            /\ UNCHANGED error
    /\ UNCHANGED <<heap, caller, liunian_df, dayun_df, config, year_signal, ohlc, ohlc_arg>>
    /\ UNCHANGED tuneVars
    /\ UNCHANGED otherVars

\* The orders in which a caller hands the life table on: as returned, or latest year first
RowOrders(rows) == {rows, [i \in 1..Len(rows) |-> rows[Len(rows) + 1 - i]]}

\* No call made
NoCall == [name |-> "none"]

\* to_decade_ohlc(given)
ToDecadeOhlcOf(given) ==
    /\ pc = "life"
    /\ ohlc_arg' = given
    /\ \E s \in SortedByYear(given) : ohlc' = to_decade_ohlc(s)
    /\ pc' = "ohlc"
    /\ UNCHANGED <<heap, caller, liunian_df, error, dayun_df, config, base, year_signal, life_df>>
    /\ UNCHANGED tuneVars
    /\ UNCHANGED otherVars

\* to_decade_ohlc(life)
ToDecadeOhlc == \E given \in RowOrders(life_df) : ToDecadeOhlcOf(given)

\* The caller keeps the arguments and the results of the three calls
Keep ==
    /\ pc = "ohlc"
    /\ previous = NoCall
    /\ previous' = [name |-> "pipeline", liunian_df |-> liunian_df, dayun_df |-> dayun_df,
                     config |-> config, base |-> base, year_signal |-> year_signal,
                     life_df |-> life_df, ohlc_arg |-> ohlc_arg, ohlc |-> ohlc]
    /\ pc' = "kept"
    /\ UNCHANGED <<heap, caller, liunian_df, error, sort_ties, state, script_run, fn, ret>>
    /\ UNCHANGED tuneVars
    /\ UNCHANGED pipeVars

\* build_year_signal called again with the arguments kept
BuildYearSignalAgain ==
    /\ pc = "kept"
    /\ BuildYearSignal(previous.liunian_df, previous.dayun_df, previous.config)

\* build_life_index called again with the arguments kept: the table, the series of
\* the first call (equal to the one just returned, C17) and the base
BuildLifeIndexAgain ==
    /\ previous # NoCall
    /\ year_signal = previous.year_signal
    /\ BuildLifeIndex(previous.base)

\* to_decade_ohlc called again with the table kept
ToDecadeOhlcAgain ==
    /\ previous # NoCall
    /\ life_df = previous.life_df
    /\ ToDecadeOhlcOf(previous.ohlc_arg)

NoArgs == [has_columns |-> FALSE, rows |-> <<>>]

\* An optional str argument: [none |-> TRUE], or [none |-> FALSE, text]
NoText == [none |-> TRUE, text |-> <<>>]
Text(t) == [none |-> FALSE, text |-> t]

\* wuxing_relation or ""
OrEmpty(arg) == IF arg.none THEN <<>> ELSE arg.text

\* blend_ten_god_weights(strength_index, special_pattern) called directly
BlendTenGodWeights(strength_index, special_pattern) ==
    /\ pc' = "scored"
    /\ caller' = "blend_ten_god_weights"
    /\ fn' = [name |-> "blend_ten_god_weights", strength_index |-> strength_index,
               special_pattern |-> special_pattern]
    /\ ret' = [name |-> "blend_ten_god_weights",
                value |-> blend_ten_god_weights(heap, strength_index, special_pattern)]
    /\ UNCHANGED <<heap, liunian_df, error, sort_ties, state, script_run, previous>>
    /\ UNCHANGED tuneVars
    /\ UNCHANGED pipeVars

\* score_ten_god(shishen, wuxing_relation, strength_index, special_pattern) called directly
ScoreTenGod(shishen, wuxing_relation, strength_index, special_pattern) ==
    /\ pc' = "scored"
    /\ caller' = "score_ten_god"
    /\ fn' = [name |-> "score_ten_god", shishen |-> shishen,
               wuxing_relation |-> wuxing_relation, strength_index |-> strength_index,
               special_pattern |-> special_pattern]
    /\ ret' = [name |-> "score_ten_god",
                value |-> score_ten_god(heap, shishen, OrEmpty(wuxing_relation),
                                        strength_index, special_pattern)]
    /\ UNCHANGED <<heap, liunian_df, error, sort_ties, state, script_run, previous>>
    /\ UNCHANGED tuneVars
    /\ UNCHANGED pipeVars

\* _locate_dayun(age, dayun_df) called directly
LocateDayun(age, dayun) ==
    /\ pc' = "scored"
    /\ caller' = "_locate_dayun"
    /\ fn' = [name |-> "_locate_dayun", age |-> age, dayun_df |-> dayun]
    /\ \E e \in SortedByStartAge(dayun.rows) :
          ret' = [name |-> "_locate_dayun", value |-> _locate_dayun(age, e)]
    /\ UNCHANGED <<heap, liunian_df, error, sort_ties, state, script_run, previous>>
    /\ UNCHANGED tuneVars
    /\ UNCHANGED pipeVars

\* _score_keywords(text, boost, risk) called directly
ScoreKeywords(text, boost, risk) ==
    /\ pc' = "scored"
    /\ caller' = "_score_keywords"
    /\ fn' = [name |-> "_score_keywords", text |-> text, boost |-> boost, risk |-> risk]
    /\ ret' = [name |-> "_score_keywords", value |-> _score_keywords(text, boost, risk)]
    /\ UNCHANGED <<heap, liunian_df, error, sort_ties, state, script_run, previous>>
    /\ UNCHANGED tuneVars
    /\ UNCHANGED pipeVars

\* ann.sentiment() called directly
AnnotationSentiment(ann) ==
    /\ pc' = "scored"
    /\ caller' = "sentiment"
    /\ fn' = [name |-> "sentiment", self |-> ann]
    /\ ret' = [name |-> "sentiment", value |-> sentiment(ann)]
    /\ UNCHANGED <<heap, liunian_df, error, sort_ties, state, script_run, previous>>
    /\ UNCHANGED tuneVars
    /\ UNCHANGED pipeVars

\* tune_ten_god_weights(liunian_df, annotations) with the default learning rate, on a
\* table whose row of 2020 carries shishen and annotations that all target 2020: the
\* entries of shishen in the two tables returned, as floats
TuneFloats(shishen, anns) ==
    /\ pc' = "scored"
    /\ caller' = "tune_ten_god_weights"
    /\ fn' = [name |-> "tune_ten_god_weights", shishen |-> shishen, annotations |-> anns]
    /\ ret' = [name |-> "tune_ten_god_weights",
                strong |-> FTuned(STRONG_FLOATS[shishen], anns),
                weak |-> FTuned(WEAK_FLOATS[shishen], anns)]
    /\ UNCHANGED <<heap, liunian_df, error, sort_ties, state, script_run, previous>>
    /\ UNCHANGED tuneVars
    /\ UNCHANGED pipeVars

NoConfig == [base_up |-> 0, base_down |-> 0, cycle |-> 1, boost |-> None, risk |-> None,
             dayun_risk_weight |-> 0, strength_index |-> 0, special_pattern |-> None,
             relation_trigger |-> 0, ten_god_weight |-> 0]

\* The caller drops the result (or the exception); the locals die with the call
Discard ==
    /\ pc \in {"returned", "raised", "signal", "life", "ohlc", "scored", "kept"}
    /\ pc' = "idle"
    /\ caller' = ""
    /\ liunian_df' = NoArgs
    /\ annotations' = <<>>
    /\ learning_rate' = 0
    /\ k' = 0
    /\ strong' = L_STRONG
    /\ weak' = L_WEAK
    /\ heap' = [heap EXCEPT ![L_STRONG] = EmptyDict, ![L_WEAK] = EmptyDict]
    /\ adjustments' = <<>>
    /\ pre' = Snapshot(heap', L_STRONG, L_WEAK, <<>>)
    /\ error' = ""
    /\ dayun_df' = NoArgs
    /\ config' = NoConfig
    /\ base' = 0
    /\ year_signal' = EmptyDict
    /\ life_df' = <<>>
    /\ ohlc' = <<>>
    /\ ohlc_arg' = <<>>
    /\ fn' = NoCall
    /\ ret' = NoCall
    /\ previous' = NoCall
    /\ UNCHANGED <<sort_ties, state, script_run>>

----------------------------------------------------------------------------
(* Inputs *)

\* A session key that holds None, and one that holds a stored object
NotStored == [stored |-> FALSE]

\* state.setdefault("bazi_result", None); state.setdefault("annotations", []);
\* state.setdefault("backtest_result", None)
SessionDefaults ==
    [bazi_result |-> NotStored, annotations |-> <<>>, backtest_result |-> NotStored]

\* No run of the script yet
NoRun == [widget |-> "", assigned |-> {}, raised |-> ""]

NoRelations == [kind |-> "none"]

Row(year, age, shishen, relations) ==
    [age |-> age, year |-> year, desc |-> <<>>, shishen |-> shishen,
     wuxing_relation |-> <<>>, relations |-> relations]

Table(rows) == [has_columns |-> TRUE, rows |-> rows]

Years == {2020, 2021}

\* raw "shishen" cells: blank, a key with padding, a code that is no key
ShishenInputs == {<<" ">>, <<" ", "bi">>, <<"jia">>}

TunerRowInputs == {Row(y, y - 1990, s, NoRelations) : y \in Years, s \in ShishenInputs}

\* A table is column-less only when it was built from no rows (pd.DataFrame([]))
TunerTables == {NoArgs} \cup {Table(r) : r \in SeqsUpTo(TunerRowInputs, MaxRows)}

\* (outcome text, intensity): a positive token, a negative token after a blank, no
\* token and a negative intensity
AnnKinds ==
    { [outcome |-> <<"xi">>, intensity |-> 20],
      [outcome |-> <<" ", "shi2">>, intensity |-> 20],
      [outcome |-> <<>>, intensity |-> -10] }

AnnInputs ==
    {[year |-> y, label |-> <<>>, outcome |-> a.outcome, intensity |-> a.intensity] :
        y \in Years, a \in AnnKinds}

LearningRates == {5, 100}

\* Keyword arguments of build_year_signal: amplitudes 10.0 up and 5.0, 100.0 or
\* 110.0 down in alternate years, markedly unfavourable eras, a doubled actor weight
Configs ==
    {[base_up |-> 10 * Micro, base_down |-> d * Micro, cycle |-> c, boost |-> None,
      risk |-> None, dayun_risk_weight |-> 11 * Deci, strength_index |-> 5,
      special_pattern |-> None, relation_trigger |-> 10, ten_god_weight |-> 20] :
        d \in {5, 100, 110}, c \in {2}}

\* What apply_feedback_loop builds from a BacktestConfig with keyword_boost =
\* keyword_risk = 1.0: the default tables passed explicitly
ApplyConfigs ==
    {[cfg EXCEPT !.boost = Some(DEFAULT_BOOST), !.risk = Some(DEFAULT_RISK)] :
        cfg \in {c \in Configs : c.base_down = 5 * Micro}}

PipeYears == {2018, 2020, 2021}

\* A bare row, and a row with actor code bi and a clash among its relations
PipeRowInputs ==
    {Row(y, y - 1990, <<>>, NoRelations) : y \in PipeYears}
      \cup {Row(y, y - 1990, <<"bi">>, [kind |-> "list", items |-> <<<<"chong">>>>]) :
                y \in PipeYears}

PipeTables == {NoArgs} \cup {Table(r) : r \in SeqsUpTo(PipeRowInputs, MaxPipeRows)}

\* No era table (as parsed from text without era lines), or one unfavourable era from age 30
EraTables ==
    {NoArgs, Table(<<[start_age |-> 30, desc |-> <<"xing">>, relations |-> NoRelations]>>)}

\* Signal series a caller may hold: no entry at all, an entry for one year only, 0 for
\* every year, and 10.0, -5.0, 0 for the three years
SeriesInputs ==
    { EmptyDict,
      (2020 :> 10 * Micro),
      [y \in PipeYears |-> 0],
      (2018 :> 10 * Micro) @@ (2020 :> -5 * Micro) @@ (2021 :> 0) }

\* base arguments: the default, zero and a negative one
Bases == {100, 0, -10}

\* strength_index arguments: below 0, 0, inside the range, 1.0, above 1
StrengthInputs == {-5, 0, 3, 5, 10, 15}

\* special_pattern arguments: none, a table with no entries, a table with bi and guan
SpecialInputs ==
    {None, Some(EmptyDict), Some((<<"bi">> :> 500) @@ (<<"guan">> :> -600))}

\* shishen arguments: keys of the tables, a code that is no key, the empty code
ActorInputs == {<<"bi">>, <<"yin">>, <<"jia">>, <<>>}

\* wuxing_relation arguments: none, empty, "sheng wo", "ke wo", a text that is no key
RelationInputs ==
    {NoText, Text(<<>>), Text(<<"sheng2", "wo">>), Text(<<"ke", "wo">>), Text(<<"jia">>)}

AgeInputs == {5, 10, 28, 30, 31}

\* Era rows told apart by their descriptions; two of them may share a start_age
EraRowInputs ==
    {[start_age |-> a, desc |-> d, relations |-> NoRelations] :
        a \in {10, 30}, d \in {<<>>, <<"xing">>}}

EraInputs == {NoArgs} \cup {Table(r) : r \in SeqsUpTo(EraRowInputs, MaxEras)}

----------------------------------------------------------------------------
(* Specifications *)

Init ==
    /\ heap = [o \in ObjIds |->
                 IF o = G_STRONG THEN STRONG_TEN_GOD_WEIGHTS
                 ELSE IF o = G_WEAK THEN WEAK_TEN_GOD_WEIGHTS ELSE EmptyDict]
    /\ pc = "idle"
    /\ caller = ""
    /\ liunian_df = NoArgs
    /\ annotations = <<>>
    /\ learning_rate = 0
    /\ k = 0
    /\ strong = L_STRONG
    /\ weak = L_WEAK
    /\ adjustments = <<>>
    /\ pre = [strong |-> EmptyDict, weak |-> EmptyDict, adjustments |-> <<>>]
    /\ error = ""
    /\ dayun_df = NoArgs
    /\ config = NoConfig
    /\ base = 0
    /\ year_signal = EmptyDict
    /\ life_df = <<>>
    /\ ohlc = <<>>
    /\ ohlc_arg = <<>>
    /\ sort_ties \in TieOrders
    /\ fn = NoCall
    /\ ret = NoCall
    /\ previous = NoCall
    /\ state = SessionDefaults
    /\ script_run = NoRun

CallTune ==
    /\ pc = "idle"
    /\ \E df \in TunerTables, anns \in SeqsUpTo(AnnInputs, MaxAnns), lr \in LearningRates :
          TuneCall(df, anns, lr, "tune_ten_god_weights")
    /\ UNCHANGED pipeVars
    /\ UNCHANGED otherVars

\* apply_feedback_loop(liunian_df, dayun_df, annotations, config) with the default
\* learning rate: its first statement is the call of the tuner
CallApplyFeedbackLoop ==
    /\ pc = "idle"
    /\ \E df \in TunerTables, anns \in SeqsUpTo(AnnInputs, MaxAnns) :
          TuneCall(df, anns, 5, "apply_feedback_loop")
    /\ \E dayun \in {NoArgs}, cfg \in ApplyConfigs, b \in {100} :
          /\ dayun_df' = dayun
          /\ config' = cfg
          /\ base' = b
    /\ UNCHANGED <<year_signal, life_df, ohlc, ohlc_arg>>
    /\ UNCHANGED otherVars

\* The feedback tuner and apply_feedback_loop
Next ==
    \/ CallTune
    \/ CallApplyFeedbackLoop
    \/ TuneStep
    \/ TuneReturn
    \/ ApplyBuildYearSignal
    \/ Discard

\* The tuner sorts nothing and apply_feedback_loop raises before its first sort, so
\* one order of equal keys stands for both here
InitTuner == Init /\ sort_ties = "kept"

Spec == InitTuner /\ [][Next]_vars

CallBuildYearSignal ==
    /\ pc = "idle"
    /\ \E df \in PipeTables, dayun \in EraTables, cfg \in Configs :
          BuildYearSignal(df, dayun, cfg)

\* Year tables a caller pairs with a series of their own: build_life_index reads only
\* the year column, so the rows are bare
SupplyTables ==
    {NoArgs} \cup
    {Table(r) : r \in SeqsUpTo({Row(y, y - 1990, <<>>, NoRelations) : y \in PipeYears},
                                MaxPipeRows)}

CallSupplyYearSignal ==
    /\ pc = "idle"
    /\ \E df \in SupplyTables, series \in SeriesInputs :
          SupplyYearSignal(df, series)

CallBuildLifeIndex == \E b \in Bases : BuildLifeIndex(b)

\* The forward pipeline: signal, life index, decade bars
NextPipeline ==
    \/ CallBuildYearSignal
    \/ CallSupplyYearSignal
    \/ CallBuildLifeIndex
    \/ ToDecadeOhlc
    \/ Discard

SpecPipeline == Init /\ [][NextPipeline]_vars

\* Year rows for repeated calls: two rows of 2020 that differ and a row of 2021
RepeatRowInputs ==
    { Row(2020, 30, <<>>, NoRelations),
      Row(2020, 30, <<"bi">>, [kind |-> "list", items |-> <<<<"chong">>>>]),
      Row(2021, 31, <<>>, NoRelations) }

RepeatTables == {Table(r) : r \in SeqsUpTo(RepeatRowInputs, MaxPipeRows)}

\* Era rows for repeated calls: a plain and an unfavourable era both from age 30, and
\* an era from age 10
RepeatEraInputs ==
    { [start_age |-> 30, desc |-> <<>>, relations |-> NoRelations],
      [start_age |-> 30, desc |-> <<"xing">>, relations |-> NoRelations],
      [start_age |-> 10, desc |-> <<>>, relations |-> NoRelations] }

RepeatEras == {NoArgs} \cup {Table(r) : r \in SeqsUpTo(RepeatEraInputs, MaxEras)}

RepeatConfigs == {c \in Configs : c.base_down = 5 * Micro}

RepeatBases == {100, 10}

CallBuildYearSignalFirst ==
    /\ pc = "idle"
    /\ \E df \in RepeatTables, dayun \in RepeatEras, cfg \in RepeatConfigs :
          BuildYearSignal(df, dayun, cfg)

CallBuildLifeIndexFirst ==
    /\ previous = NoCall
    /\ \E b \in RepeatBases : BuildLifeIndex(b)

CallToDecadeOhlcFirst ==
    /\ previous = NoCall
    /\ ToDecadeOhlc

\* The forward pipeline run, its arguments and results kept, and run again on the
\* same arguments
NextRepeat ==
    \/ CallBuildYearSignalFirst
    \/ CallBuildLifeIndexFirst
    \/ CallToDecadeOhlcFirst
    \/ Keep
    \/ BuildYearSignalAgain
    \/ BuildLifeIndexAgain
    \/ ToDecadeOhlcAgain
    \/ Discard

SpecRepeat == Init /\ [][NextRepeat]_vars

\* text arguments: empty, "xing chong" without the blank, a key twice, both tokens of
\* the two-token key, its first token alone, keys of both tables, no key at all
TextInputs ==
    { <<>>, <<"xing", "chong">>, <<"xing", "jia", "xing">>, <<"kong", "wang">>, <<"kong">>,
      <<"he", "sheng2", " ", "po">>, <<"jia", " ", "zi">> }

\* boost tables: the default, and one whose keys overlap ("he" and "he sheng")
BoostInputs ==
    {DEFAULT_BOOST, (<<"he">> :> 90 * Centi) @@ (<<"he", "sheng2">> :> 50 * Centi)}

\* risk tables: the default, and one whose keys overlap ("kong" and "kong wang")
RiskInputs ==
    {DEFAULT_RISK, (<<"kong">> :> 30 * Centi) @@ (<<"kong", "wang">> :> 120 * Centi)}

CallScoreKeywords ==
    /\ pc = "idle"
    /\ \E text \in TextInputs, boost \in BoostInputs, risk \in RiskInputs :
          ScoreKeywords(text, boost, risk)

\* Year rows for the terms of the signal: a bare row of each year, a row of 2020 with a
\* boost key, an actor code, an elemental relation and a relation list with a repeated
\* and an unknown token, and a row of 2021 with two risk keys and a relation string
SignalRowInputs ==
    {Row(y, y - 1990, <<>>, NoRelations) : y \in PipeYears}
      \cup { [Row(2020, 30, <<" ", "bi">>,
                  [kind |-> "list", items |-> << <<"chong">>, <<"chong">>, <<"jia">> >>])
                EXCEPT !.desc = <<"he">>, !.wuxing_relation = <<"sheng2", "wo">>],
             [Row(2021, 31, <<>>, [kind |-> "str", text |-> <<"xing", "/", " ", "po">>])
                EXCEPT !.desc = <<"xing", "chong">>] }

SignalTables == {Table(r) : r \in SeqsUpTo(SignalRowInputs, MaxPipeRows)}

\* Era tables for the terms of the signal: none; an era from age 30 whose description
\* holds two risk keys; one whose description holds a boost key only and that carries
\* relation tokens; one with an empty description
SignalEras ==
    { NoArgs,
      Table(<<[start_age |-> 30, desc |-> <<"xing", "chong">>, relations |-> NoRelations]>>),
      Table(<<[start_age |-> 30, desc |-> <<"he">>,
               relations |-> [kind |-> "list", items |-> << <<"chong">>, <<"san", "he">> >>]]>>),
      Table(<<[start_age |-> 30, desc |-> <<>>, relations |-> NoRelations]>>) }

\* The keyword arguments with cycle 2 and cycle 3, and with a risk table of the caller
SignalConfigs ==
    {[base_up |-> 10 * Micro, base_down |-> 5 * Micro, cycle |-> c, boost |-> None,
      risk |-> r, dayun_risk_weight |-> 6 * Deci, strength_index |-> 5,
      special_pattern |-> None, relation_trigger |-> 15, ten_god_weight |-> 100] :
        c \in {2, 3}, r \in {None, Some((<<"chong">> :> 110 * Centi))}}

CallBuildYearSignalTerms ==
    /\ pc = "idle"
    /\ \E df \in SignalTables, dayun \in SignalEras, cfg \in SignalConfigs :
          BuildYearSignal(df, dayun, cfg)

\* build_year_signal alone, on rows and eras that exercise each term of the signal
NextSignal ==
    \/ CallBuildYearSignalTerms
    \/ Discard

SpecSignal == Init /\ [][NextSignal]_vars

\* outcome texts: a positive token, a negative token after a blank, both kinds, the
\* two-character positive token, its first character alone, a text without token, ""
OutcomeInputs ==
    { <<"xi">>, <<" ", "shi2">>, <<"shi2", "xi">>, <<"cheng", "gong">>, <<"cheng">>,
      <<"jia", " ">>, <<>> }

\* intensities (tenths): negative, zero, positive
IntensityInputs == {-10, 0, 20}

CallAnnotationSentiment ==
    /\ pc = "idle"
    /\ \E o \in OutcomeInputs, i \in IntensityInputs :
          AnnotationSentiment([year |-> 2020, label |-> <<>>, outcome |-> o, intensity |-> i])

\* Annotations on 2020 with a positive or a negative outcome, intensity 1.0, 2.0 or 4.0
FloatAnnInputs ==
    {[year |-> 2020, label |-> <<>>, outcome |-> o, intensity |-> i] :
        o \in {<<"xi">>, <<" ", "shi2">>}, i \in {10, 20, 40}}

\* Actor codes of the row: entries -0.40 / -0.35, -0.30 / 0.40, 0.35 / 0.35, 0.25 / -0.25
FloatActorInputs == {<<"guan">>, <<"yin">>, <<"bi">>, <<"cai">>}

MaxFloatAnns == 3   \* annotations of a call of the float tuner

CallTuneFloats ==
    /\ pc = "idle"
    /\ \E a \in FloatActorInputs, anns \in SeqsUpTo(FloatAnnInputs, MaxFloatAnns) :
          TuneFloats(a, anns)

\* The tuner on annotation lists, in float arithmetic
NextFloats ==
    \/ CallTuneFloats
    \/ Discard

SpecFloats == InitTuner /\ [][NextFloats]_vars

CallBlendTenGodWeights ==
    /\ pc = "idle"
    /\ \E i \in StrengthInputs, sp \in SpecialInputs : BlendTenGodWeights(i, sp)

CallScoreTenGod ==
    /\ pc = "idle"
    /\ \E a \in ActorInputs, rel \in RelationInputs, i \in StrengthInputs,
          sp \in SpecialInputs : ScoreTenGod(a, rel, i, sp)

CallLocateDayun ==
    /\ pc = "idle"
    /\ \E age \in AgeInputs, dayun \in EraInputs : LocateDayun(age, dayun)

\* The scoring functions called one at a time
NextScore ==
    \/ CallBlendTenGodWeights
    \/ CallScoreTenGod
    \/ CallLocateDayun
    \/ CallScoreKeywords
    \/ CallAnnotationSentiment
    \/ Discard

SpecScore == Init /\ [][NextScore]_vars

----------------------------------------------------------------------------
(* Claims about the feedback tuner *)

Now == Snapshot(heap, strong, weak, adjustments)

InTuner == pc \in {"loop", "tuned", "returned", "raised"}

\* The annotation of the last loop iteration
LastAnn == annotations[k]

HasRowOfYear(df, year) == \E i \in 1..Len(df.rows) : df.rows[i].year = year

\* The first row of the table, in row order, that carries the year
FirstRowOfYear(df, year) ==
    df.rows[CHOOSE i \in 1..Len(df.rows) :
                /\ df.rows[i].year = year
                /\ \A j \in 1..(i - 1) : df.rows[j].year # year]

InClampRange(d) == \A key \in DOMAIN d : CLAMP_LOWER <= d[key] /\ d[key] <= CLAMP_UPPER

\* C1: at every point of the tuner's loop and at its return, every entry of the
\* working strong table and of the working weak table lies in [-0.8, 0.8].
C1_ClampRange == InTuner => InClampRange(heap[strong]) /\ InClampRange(heap[weak])

\* one iteration clamped both entries of bi at the upper limit, the next at the lower limit
C1_Witness ==
    /\ pc = "returned"
    /\ k = 2
    /\ pre.strong[<<"bi">>] = CLAMP_UPPER
    /\ pre.weak[<<"bi">>] = CLAMP_UPPER
    /\ heap[strong][<<"bi">>] = CLAMP_LOWER
    /\ heap[weak][<<"bi">>] = CLAMP_LOWER

\* The tuner computed as a function of its arguments and the default tables alone
FreshHeap ==
    [o \in ObjIds |->
        IF o \in {G_STRONG, L_STRONG} THEN STRONG_TEN_GOD_WEIGHTS ELSE WEAK_TEN_GOD_WEIGHTS]

RECURSIVE TuneFold(_, _, _, _, _)
TuneFold(df, anns, lr, h, adj) ==
    IF anns = <<>> THEN Snapshot(h, L_STRONG, L_WEAK, adj)
    ELSE LET ann == Head(anns) IN
         IF StepKind(df, ann, h, L_STRONG) = "applied"
         THEN LET shishen == StepShishen(df, ann)
                  delta == Delta(ann, lr)
              IN TuneFold(df, Tail(anns), lr, StepHeap(h, L_STRONG, L_WEAK, shishen, delta),
                          Append(adj, <<shishen, delta>>))
         ELSE TuneFold(df, Tail(anns), lr, h, adj)

\* C3: the module-level default tables never change, and what a tuner call returns
\* is determined by its own arguments and the defaults, whatever calls came before.
C3_DefaultsUntouched ==
    /\ heap[G_STRONG] = STRONG_TEN_GOD_WEIGHTS
    /\ heap[G_WEAK] = WEAK_TEN_GOD_WEIGHTS
    /\ pc \in {"tuned", "returned"} =>
          Now = TuneFold(liunian_df, annotations, learning_rate, FreshHeap, <<>>)

\* a call has returned tables that differ from the defaults
C3_Witness ==
    /\ pc = "returned"
    /\ Len(adjustments) = 2
    /\ heap[strong] # STRONG_TEN_GOD_WEIGHTS
    /\ heap[weak] # WEAK_TEN_GOD_WEIGHTS

\* C4: an iteration on an annotation whose year no row carries appends no
\* adjustment and leaves both working tables as they were before it.
C4_UnmatchedIsNoOp ==
    (InTuner /\ k >= 1 /\ ~HasRowOfYear(liunian_df, LastAnn.year)) => Now = pre

\* an unmatched annotation was processed after one that changed the tables
C4_Witness ==
    /\ pc = "loop"
    /\ k = 2
    /\ liunian_df.has_columns
    /\ ~HasRowOfYear(liunian_df, LastAnn.year)
    /\ Len(pre.adjustments) = 1
    /\ pre.strong # STRONG_TEN_GOD_WEIGHTS

\* An annotation the claim calls skipped: no row of its year, or a blank actor code
IsSkipped(df, ann) ==
    \/ ~HasRowOfYear(df, ann.year)
    \/ Strip(FirstRowOfYear(df, ann.year).shishen) = <<>>

RemoveSkipped(df, anns) == SelectSeq(anns, LAMBDA a : ~IsSkipped(df, a))

\* C5: a skipped annotation raises nothing and does not stop the loop: the call
\* returns, and returns what it returns for the list without the skipped annotations.
C5_SkipNeverAborts ==
    (caller = "tune_ten_god_weights" /\ k >= 1) =>
        /\ IsSkipped(liunian_df, LastAnn) => pc # "raised"
        /\ pc = "returned" =>
              Now = TuneFold(liunian_df, RemoveSkipped(liunian_df, annotations),
                             learning_rate, FreshHeap, <<>>)

\* The records C6 as written expects: one per annotation whose year has a row
\* with a non-blank actor code
RECURSIVE AdjustmentsAnyCode(_, _, _)
AdjustmentsAnyCode(df, anns, lr) ==
    IF anns = <<>> THEN <<>>
    ELSE LET ann == Head(anns)
             rest == AdjustmentsAnyCode(df, Tail(anns), lr)
         IN IF \E i \in 1..Len(df.rows) :
                    df.rows[i].year = ann.year /\ Strip(df.rows[i].shishen) # <<>>
            THEN LET i == CHOOSE i \in 1..Len(df.rows) :
                              df.rows[i].year = ann.year /\ Strip(df.rows[i].shishen) # <<>>
                 IN <<<<Strip(df.rows[i].shishen), lr * sentiment(ann) * ann.intensity>>>>
                        \o rest
            ELSE rest

RECURSIVE AdjustmentsKnownCode(_, _, _)
AdjustmentsKnownCode(df, anns, lr) ==
    IF anns = <<>> THEN <<>>
    ELSE LET ann == Head(anns)
             rest == AdjustmentsKnownCode(df, Tail(anns), lr)
         IN IF /\ HasRowOfYear(df, ann.year)
               /\ Strip(FirstRowOfYear(df, ann.year).shishen) \in DOMAIN STRONG_TEN_GOD_WEIGHTS
            THEN <<<<Strip(FirstRowOfYear(df, ann.year).shishen),
                     lr * sentiment(ann) * ann.intensity>>>> \o rest
            ELSE rest

LastIsCoded ==
    /\ InTuner /\ k >= 1
    /\ HasRowOfYear(liunian_df, LastAnn.year)
    /\ Strip(FirstRowOfYear(liunian_df, LastAnn.year).shishen) # <<>>

LastCode == Strip(FirstRowOfYear(liunian_df, LastAnn.year).shishen)

LastDelta == learning_rate * sentiment(LastAnn) * LastAnn.intensity

\* Both entries of code a moved by delta and were clamped; nothing else moved
UpdatedBy(a, delta) ==
    /\ Get(heap[strong], a, 0) = _clamp(Get(pre.strong, a, 0) + delta)
    /\ Get(heap[weak], a, 0) = _clamp(Get(pre.weak, a, 0) + delta)
    /\ \A x \in (DOMAIN pre.strong \cup DOMAIN heap[strong]) \ {a} :
          Get(heap[strong], x, 0) = Get(pre.strong, x, 0)
    /\ \A x \in (DOMAIN pre.weak \cup DOMAIN heap[weak]) \ {a} :
          Get(heap[weak], x, 0) = Get(pre.weak, x, 0)

----------------------------------------------------------------------------
(* Claims about apply_feedback_loop and the forward pipeline *)

\* The heap with the tuned tables in the place of the defaults
TunedHeap == [heap EXCEPT ![G_STRONG] = heap[strong], ![G_WEAK] = heap[weak]]

\* C2: apply_feedback_loop completes without error and returns the life index
\* rebuilt by build_year_signal and build_life_index with every actor score computed
\* from the tuned tables.
C2_ApplyReturnsTunedSeries ==
    (caller = "apply_feedback_loop" /\ pc \in {"returned", "raised"}) =>
        /\ pc = "returned"
        /\ error = ""
        /\ \E s \in SortedByYear(liunian_df.rows), e \in SortedByStartAge(dayun_df.rows) :
              life_df = build_life_index(s, build_year_signal(TunedHeap, s, e, config), base)

HasLife == pc \in {"life", "ohlc"}

CountYear(rows, y) == Cardinality({i \in 1..Len(rows) : rows[i].year = y})

\* v grown by sig percent
C8_Grow(v, sig) == RatMul(v, Rat(100 * Micro + sig, 100 * Micro))

\* C8: build_life_index returns one row per input row in ascending year order
\* whatever the input order, each with its year's signal (0 when the series has
\* none) and index[0] = base * (1 + signal/100), index[i] = index[i-1] * (1 + signal/100).
C8_CompoundsInYearOrder ==
    HasLife =>
        /\ Len(life_df) = Len(liunian_df.rows)
        /\ \A i \in 1..Len(life_df) :
              /\ CountYear(life_df, life_df[i].year) = CountYear(liunian_df.rows, life_df[i].year)
              /\ i > 1 => life_df[i - 1].year <= life_df[i].year
              /\ life_df[i].year_signal = Get(year_signal, life_df[i].year, 0)
              /\ life_df[i].life_index =
                    C8_Grow(IF i = 1 THEN RatOf(base) ELSE life_df[i - 1].life_index,
                            life_df[i].year_signal)

\* rows given in the order 2021, 2018, 2020 with signals 10, -5, 0 and base 100
\* give 110.0, 104.5, 104.5 in year order
C8_Witness ==
    /\ pc = "life"
    /\ base = 100
    /\ Len(liunian_df.rows) = 3
    /\ liunian_df.rows[1].year = 2021 /\ liunian_df.rows[2].year = 2018
    /\ liunian_df.rows[3].year = 2020
    /\ year_signal = (2018 :> 10 * Micro) @@ (2020 :> -5 * Micro) @@ (2021 :> 0)
    /\ life_df[1].year = 2018 /\ life_df[1].life_index = [n |-> 110, d |-> 1]
    /\ life_df[2].year = 2020 /\ life_df[2].life_index = [n |-> 209, d |-> 2]
    /\ life_df[3].year = 2021 /\ life_df[3].life_index = [n |-> 209, d |-> 2]

AllSignalsZero ==
    \A i \in 1..Len(liunian_df.rows) : Get(year_signal, liunian_df.rows[i].year, 0) = 0

\* C9: when the signal of every year is 0, every index value equals base, and every
\* decade bar of that series has open = high = low = close = base.
C9_ZeroSignalIsFlat ==
    (HasLife /\ AllSignalsZero) =>
        /\ \A i \in 1..Len(life_df) : life_df[i].life_index = RatOf(base)
        /\ pc = "ohlc" =>
              \A b \in 1..Len(ohlc) :
                  /\ ohlc[b].open = RatOf(base) /\ ohlc[b].high = RatOf(base)
                  /\ ohlc[b].low = RatOf(base) /\ ohlc[b].close = RatOf(base)

\* three years over two decades, all signals 0, base 100: two flat bars
C9_Witness ==
    /\ pc = "ohlc"
    /\ AllSignalsZero
    /\ base = 100
    /\ Len(life_df) = 3
    /\ Len(ohlc) = 2
    /\ ohlc[1].decade = 2010 /\ ohlc[2].decade = 2020
    /\ ohlc[2].close = [n |-> 100, d |-> 1]

IndexPositive == \A i \in 1..Len(life_df) : life_df[i].life_index.n > 0

\* C10: for a positive base and signals returned by build_year_signal, every index
\* value is strictly positive.
C10_IndexAlwaysPositive ==
    (HasLife /\ caller = "build_year_signal" /\ base > 0) => IndexPositive

\* Where positivity does hold: a positive base and signals that are all greater
\* than -100.
IndexPositiveAboveMinus100 ==
    (HasLife /\ base > 0 /\ \A i \in 1..Len(life_df) : life_df[i].year_signal > -100 * Micro)
        => IndexPositive

\* a series built by build_year_signal with a falling and a rising year, all positive
FallingYearStaysPositive ==
    /\ pc = "life"
    /\ caller = "build_year_signal"
    /\ Len(life_df) = 3
    /\ \E i \in 1..3 : life_df[i].year_signal < 0 /\ life_df[i].year_signal > -100 * Micro
    /\ \E i \in 1..3 : life_df[i].year_signal > 0
    /\ IndexPositive
    /\ life_df[3].life_index.n < life_df[3].life_index.d * base

----------------------------------------------------------------------------
(* Claims about the failures the core should report *)

\* Two rows of the year table carry the same year
DuplicateYears ==
    \E i, j \in 1..Len(liunian_df.rows) :
        i # j /\ liunian_df.rows[i].year = liunian_df.rows[j].year

\* C11: when two rows carry the same year, build_year_signal and build_life_index
\* end in an error and return neither a signal mapping nor a life-index series.
C11_DuplicateYearIsError ==
    (DuplicateYears /\ pc \in {"signal", "life", "ohlc", "raised"}) =>
        (pc = "raised" /\ error # "")

\* C12: when base is zero or negative, build_life_index ends in an error and returns
\* no life-index series.
C12_NonPositiveBaseIsError ==
    (pc \in {"life", "ohlc", "raised"} /\ base <= 0 /\ liunian_df.rows # <<>>) =>
        (pc = "raised" /\ error # "")

----------------------------------------------------------------------------
(* Claims about to_decade_ohlc *)

\* floor(year / 10) * 10
FloorToTen(year) == year - (year % 10)

\* Rows of the table given to to_decade_ohlc that belong to the decade
Members(decade) == {i \in 1..Len(ohlc_arg) : FloorToTen(ohlc_arg[i].year) = decade}

BarsOf(decade) == {b \in 1..Len(ohlc) : ohlc[b].decade = decade}

\* C13: every input year lies in exactly one bar, the bar of floor(year/10)*10, whose
\* low and high enclose its index value; no bar is without an input year; and every
\* bar has low <= open <= high and low <= close <= high.
C13_EveryYearInOneBar ==
    pc = "ohlc" =>
        /\ \A i \in 1..Len(ohlc_arg) :
              /\ Cardinality(BarsOf(FloorToTen(ohlc_arg[i].year))) = 1
              /\ \A b \in BarsOf(FloorToTen(ohlc_arg[i].year)) :
                    /\ RatLeq(ohlc[b].low, ohlc_arg[i].life_index)
                    /\ RatLeq(ohlc_arg[i].life_index, ohlc[b].high)
        /\ \A b \in 1..Len(ohlc) :
              /\ Members(ohlc[b].decade) # {}
              /\ RatLeq(ohlc[b].low, ohlc[b].open) /\ RatLeq(ohlc[b].open, ohlc[b].high)
              /\ RatLeq(ohlc[b].low, ohlc[b].close) /\ RatLeq(ohlc[b].close, ohlc[b].high)

\* three years over two decades given latest year first; the later bar spans a range
C13_Witness ==
    /\ pc = "ohlc"
    /\ Len(ohlc_arg) = 3
    /\ ohlc_arg[1].year = 2021 /\ ohlc_arg[2].year = 2020 /\ ohlc_arg[3].year = 2018
    /\ Len(ohlc) = 2
    /\ ohlc[1].decade = 2010 /\ ohlc[2].decade = 2020
    /\ ohlc[2].low # ohlc[2].high

ValuesOf(rows) == {ohlc_arg[i].life_index : i \in rows}

EarliestOf(rows) == {i \in rows : \A j \in rows : ohlc_arg[i].year <= ohlc_arg[j].year}

LatestOf(rows) == {i \in rows : \A j \in rows : ohlc_arg[j].year <= ohlc_arg[i].year}

\* C14: whatever the row order of the input, each bar has open = the index value of
\* the earliest year of its bucket, close = that of the latest year, high = the maximum
\* and low = the minimum of the bucket; a bucket of one year has all four equal; the
\* bars are in ascending bucket order.
C14_BarsFromYearOrder ==
    pc = "ohlc" =>
        /\ \A b \in 1..(Len(ohlc) - 1) : ohlc[b].decade < ohlc[b + 1].decade
        /\ \A b \in 1..Len(ohlc) :
              LET rows == Members(ohlc[b].decade) IN
              /\ ohlc[b].open \in ValuesOf(EarliestOf(rows))
              /\ ohlc[b].close \in ValuesOf(LatestOf(rows))
              /\ ohlc[b].high \in ValuesOf(rows)
              /\ ohlc[b].low \in ValuesOf(rows)
              /\ \A v \in ValuesOf(rows) : RatLeq(ohlc[b].low, v) /\ RatLeq(v, ohlc[b].high)
              /\ Cardinality(rows) = 1 =>
                    /\ ohlc[b].open = ohlc[b].close
                    /\ ohlc[b].high = ohlc[b].open /\ ohlc[b].low = ohlc[b].open

\* rows given latest year first: the bar of 2020 opens at the value of 2020 and closes
\* at the different value of 2021; the bar of 2010 holds the one year 2018
C14_Witness ==
    /\ pc = "ohlc"
    /\ Len(ohlc_arg) = 3
    /\ ohlc_arg[1].year = 2021 /\ ohlc_arg[2].year = 2020 /\ ohlc_arg[3].year = 2018
    /\ Len(ohlc) = 2
    /\ ohlc[2].open = ohlc_arg[2].life_index
    /\ ohlc[2].close = ohlc_arg[1].life_index
    /\ ohlc[2].open # ohlc[2].close
    /\ ohlc[1].open = ohlc_arg[3].life_index /\ ohlc[1].close = ohlc[1].open

----------------------------------------------------------------------------
(* Claims about the actor scorer *)

Scored(function) == pc = "scored" /\ fn.name = function

\* 100 * (1 + multiplier of the relation), 100 for a relation that is no key
OnePlusMultiplier(relation) ==
    IF relation \in DOMAIN WUXING_MULTIPLIER THEN 100 + WUXING_MULTIPLIER[relation] ELSE 100

\* C15: whenever a special-pattern table is supplied to score_ten_god, also one with
\* no entries, the result is specialTable[actor] (0 for a missing key) times
\* (1 + multiplier), whatever the strength index.
C15_SpecialTableOverrides ==
    (Scored("score_ten_god") /\ ~fn.special_pattern.none) =>
        ret.value = 10 * Get(fn.special_pattern.items, fn.shishen, 0)
                       * OnePlusMultiplier(OrEmpty(fn.wuxing_relation))

\* The strength index (tenths) clamped to [0, 1]
ClampedIndex(strength_index) ==
    IF strength_index <= 0 THEN 0 ELSE IF strength_index >= 10 THEN 10 ELSE strength_index

ValueIn(table, actor) == IF actor \in DOMAIN table THEN table[actor] ELSE 0

\* I' * strongTable[actor] + (1 - I') * weakTable[actor]
Interpolated(actor, strength_index) ==
    ClampedIndex(strength_index) * ValueIn(STRONG_TEN_GOD_WEIGHTS, actor)
        + (10 - ClampedIndex(strength_index)) * ValueIn(WEAK_TEN_GOD_WEIGHTS, actor)

\* C18: without a special-pattern table the base actor score is
\* I' * strongTable[actor] + (1 - I') * weakTable[actor] with I' the strength index
\* clamped to [0, 1], and 0 for an actor code missing from the tables.
C18_InterpolatesClamped ==
    /\ (Scored("blend_ten_god_weights") /\ fn.special_pattern.none) =>
          \A a \in ActorInputs \cup DOMAIN STRONG_TEN_GOD_WEIGHTS :
              Get(ret.value, a, 0) = Interpolated(a, fn.strength_index)
    /\ (Scored("score_ten_god") /\ fn.special_pattern.none
          /\ OrEmpty(fn.wuxing_relation) = <<>>) =>
          ret.value = 100 * Interpolated(fn.shishen, fn.strength_index)

\* yin at strength index 1.5 scores its strong-table value -0.3
C18_Witness ==
    /\ Scored("score_ten_god")
    /\ fn.special_pattern.none
    /\ fn.wuxing_relation.none
    /\ fn.shishen = <<"yin">>
    /\ fn.strength_index = 15
    /\ ret.value = -300000

\* C19: score_ten_god returns base * (1 + multiplierTable[relation]) for a known
\* relation and base for an unspecified, empty or unknown one, whether base was
\* interpolated or read from a special-pattern table.
C19_AppliesMultiplier ==
    Scored("score_ten_god") =>
        ret.value =
            Get(blend_ten_god_weights(heap, fn.strength_index, fn.special_pattern),
                fn.shishen, 0) * OnePlusMultiplier(OrEmpty(fn.wuxing_relation))

\* yin at strength index 0 under "sheng wo": 0.4 * 1.2 = 0.48
C19_Witness ==
    /\ Scored("score_ten_god")
    /\ fn.special_pattern.none
    /\ fn.shishen = <<"yin">>
    /\ fn.strength_index = 0
    /\ fn.wuxing_relation = Text(<<"sheng2", "wo">>)
    /\ ret.value = 480000

\* C16: build_year_signal and build_life_index never raise on missing or empty input:
\* called on a year table with no rows, the column-less table of the parser included,
\* they return a result.
C16_EmptyInputNeverRaises ==
    (pc \in {"signal", "life", "raised"} /\ liunian_df.rows = <<>>) =>
        (pc # "raised" /\ error = "")

\* Positions of the era rows whose start_age is the greatest start_age <= age
Current(age, rows) ==
    {i \in 1..Len(rows) :
        /\ rows[i].start_age <= age
        /\ \A j \in 1..Len(rows) :
              rows[j].start_age <= age => rows[j].start_age <= rows[i].start_age}

Last(positions) == CHOOSE i \in positions : \A j \in positions : j <= i

First(positions) == CHOOSE i \in positions : \A j \in positions : i <= j

----------------------------------------------------------------------------
(* Claims about the keyword scorer *)

\* The keys of table that are substrings of text
KeysIn(table, text) == {key \in DOMAIN table : Occurrences(text, key) >= 1}

\* The sum of table[key] over a set of keys
RECURSIVE SumOfKeys(_, _)
SumOfKeys(table, keys) ==
    IF keys = {} THEN 0
    ELSE LET key == CHOOSE x \in keys : TRUE
         IN table[key] + SumOfKeys(table, keys \ {key})

\* C21: _score_keywords returns the sum of the values of the boost entries whose key
\* is a substring of the text minus the sum of the values of the risk entries whose
\* key is a substring of the text: an entry counts once however often its key occurs,
\* overlapping keys each count ("kong" and "kong wang": -(0.3 + 1.2)), the empty text
\* gives 0, and "xing chong" written without a blank gives -(0.9 + 1.1) = -2.0 with
\* the default tables.
C21_KeywordScoreIsSumOfPresentKeys ==
    Scored("_score_keywords") =>
        /\ ret.value = SumOfKeys(fn.boost, KeysIn(fn.boost, fn.text))
                         - SumOfKeys(fn.risk, KeysIn(fn.risk, fn.text))
        /\ fn.text = <<>> => ret.value = 0
        /\ (fn.text = <<"xing", "chong">> /\ fn.boost = DEFAULT_BOOST
              /\ fn.risk = DEFAULT_RISK) => ret.value = -200 * Centi
        /\ (fn.text = <<"kong", "wang">> /\ fn.risk # DEFAULT_RISK) =>
              ret.value = -150 * Centi

\* C21 witness: "xing" twice in the text with the default tables gives -0.9
C21_Witness ==
    /\ Scored("_score_keywords")
    /\ fn.text = <<"xing", "jia", "xing">>
    /\ fn.boost = DEFAULT_BOOST /\ fn.risk = DEFAULT_RISK
    /\ ret.value = -90 * Centi

----------------------------------------------------------------------------
(* Claims about the terms of the year signal *)

\* build_year_signal has returned its series
HasSignal == pc = "signal" /\ caller = "build_year_signal"

\* The era rows as _locate_dayun sorts them
SortedEras == CHOOSE e \in SortedByStartAge(dayun_df.rows) : TRUE

\* The era applicable to a year row
EraOf(row) == _locate_dayun(row.age, SortedEras)

\* Positions of the input rows of a year
RowsOfYear(y) == {i \in 1..Len(liunian_df.rows) : liunian_df.rows[i].year = y}

\* The year row whose signal the series holds for year y: the only one, or among
\* several the one the sort by year places last
OwnerOf(y) ==
    liunian_df.rows[IF sort_ties = "kept" THEN Last(RowsOfYear(y)) ELSE First(RowsOfYear(y))]

\* Its zero-based position after the sort by ascending year
IdxOf(y) == Cardinality({i \in 1..Len(liunian_df.rows) : liunian_df.rows[i].year <= y}) - 1

\* Positions 0 .. ceil(cycle / 2) - 1 of every cycle are up, the others down
Cyclical(idx) ==
    IF idx % config.cycle \in 0..(((config.cycle + 1) \div 2) - 1)
    THEN config.base_up ELSE -config.base_down

\* What the signal of a row holds besides its cyclical term
NonCyclical(row) ==
    RowSignal(heap, 0, row, SortedEras, config) - Cyc(0, config)

\* C23: the cyclical term of a record is base_up when (idx mod cycle) < cycle / 2 and
\* -base_down otherwise, with idx the record's zero-based position after sorting the
\* rows by ascending year, whatever the input row order, and cycle / 2 the exact half
\* (for cycle 3 the positions 0, 1 are up and 2 is down).
C23_CyclicalByPositionInYearOrder ==
    HasSignal =>
        \A y \in DOMAIN year_signal :
            year_signal[y] = Cyclical(IdxOf(y)) + NonCyclical(OwnerOf(y))

\* C23 witness: three bare rows given latest year first, cycle 3, no era: 2018 and
\* 2020 are up (10.0), 2021 is down (-5.0)
C23_Witness ==
    /\ HasSignal
    /\ config.cycle = 3
    /\ Len(liunian_df.rows) = 3
    /\ liunian_df.rows[1].year = 2021 /\ liunian_df.rows[2].year = 2020
    /\ liunian_df.rows[3].year = 2018
    /\ year_signal = (2018 :> 10 * Micro) @@ (2020 :> 10 * Micro) @@ (2021 :> -5 * Micro)

\* The tables in use: the caller's when given and not empty, else the defaults
BoostInUse == IF Truthy(config.boost) THEN config.boost.items ELSE DEFAULT_BOOST

RiskInUse == IF Truthy(config.risk) THEN config.risk.items ELSE DEFAULT_RISK

\* The keyword score of a row before the era drag: the scorer on description, blank,
\* era description
KeywordScore(row) ==
    _score_keywords(row.desc \o <<" ">> \o DayunDesc(EraOf(row)), BoostInUse, RiskInUse)

\* The relation score of a row
RelationScore(row) ==
    IF Relations(row, EraOf(row)) # <<>>
    THEN score_relation(Relations(row, EraOf(row)), config.relation_trigger) ELSE 0

\* One flat drag when an era applies and its description holds a risk key
EraDrag(row) ==
    IF EraOf(row).found /\ KeysIn(RiskInUse, EraOf(row).row.desc) # {}
    THEN config.dayun_risk_weight ELSE 0

\* C24: when the description of the era applicable to a record holds at least one key
\* of the risk table in use, exactly one flat dayun_risk_weight is subtracted from the
\* record's keyword score, however many risk keys it holds and besides the deductions
\* per keyword; when no era applies or its description holds no risk key, nothing is.
C24_OneFlatEraDrag ==
    HasSignal =>
        \A y \in DOMAIN year_signal :
            year_signal[y] =
                Cyc(IdxOf(y), config) + (KeywordScore(OwnerOf(y)) - EraDrag(OwnerOf(y)))
                    + TenScore(heap, OwnerOf(y), config) + RelationScore(OwnerOf(y))

\* C24 witness: one bare row of 2020 (age 30) under an era whose description holds the
\* risk keys "xing" and "chong", default tables: 10.0 - (0.9 + 1.1) - 0.6 = 7.4
C24_Witness ==
    /\ HasSignal
    /\ Len(liunian_df.rows) = 1
    /\ liunian_df.rows[1] = Row(2020, 30, <<>>, NoRelations)
    /\ Len(dayun_df.rows) = 1
    /\ dayun_df.rows[1].desc = <<"xing", "chong">>
    /\ config.risk = None
    /\ year_signal = (2020 :> 74 * Deci)

\* The tokens of the year's own relations followed by those of the applicable era's
\* relation list
TokensOf(row) ==
    RowRelations(row.relations)
        \o (IF EraOf(row).found /\ EraOf(row).row.relations.kind = "list"
            THEN EraOf(row).row.relations.items ELSE <<>>)

\* How often a token occurs in a list
CountIn(tokens, t) == Cardinality({i \in 1..Len(tokens) : tokens[i] = t})

\* The sum over the known tokens of occurrences * base score * trigger coefficient
RECURSIVE SumOfTokens(_, _)
SumOfTokens(tokens, known) ==
    IF known = {} THEN 0
    ELSE LET t == CHOOSE x \in known : TRUE
         IN CountIn(tokens, t) * RELATION_BASE_SCORE[t] * config.relation_trigger * Deci
              + SumOfTokens(tokens, known \ {t})

\* C25: the relation score of a year is the sum of base score * trigger coefficient
\* over every token of the year's own relation list and of the applicable era's
\* relation list, a repeated token counted per occurrence, an unknown token counted
\* 0; it is 0 when both lists are empty.
C25_RelationScoreSumsAllTokens ==
    HasSignal =>
        \A y \in DOMAIN year_signal :
            /\ year_signal[y] =
                  Cyc(IdxOf(y), config)
                    + (KeywordScore(OwnerOf(y))
                         - DayunDrag(DayunDesc(EraOf(OwnerOf(y))), RiskInUse, config))
                    + TenScore(heap, OwnerOf(y), config)
                    + SumOfTokens(TokensOf(OwnerOf(y)), DOMAIN RELATION_BASE_SCORE)
            /\ TokensOf(OwnerOf(y)) = <<>> => RelationScore(OwnerOf(y)) = 0

\* C25 witness: the row of 2020 with relations chong, chong and an unknown token,
\* under an era carrying chong and "san he", trigger 1.5:
\* (-5 - 5 + 0 - 5 + 6) * 1.5 = -13.5
C25_Witness ==
    /\ HasSignal
    /\ Len(liunian_df.rows) = 1
    /\ liunian_df.rows[1].relations =
          [kind |-> "list", items |-> << <<"chong">>, <<"chong">>, <<"jia">> >>]
    /\ Len(dayun_df.rows) = 1
    /\ dayun_df.rows[1].relations =
          [kind |-> "list", items |-> << <<"chong">>, <<"san", "he">> >>]
    /\ RelationScore(liunian_df.rows[1]) = -135 * Deci
    /\ year_signal[2020] = Cyc(0, config) + KeywordScore(liunian_df.rows[1])
                             + TenScore(heap, liunian_df.rows[1], config) - 135 * Deci

\* The signal of a year row at position idx of the year order, term by term
SignalOf(row, idx) ==
    Cyc(idx, config) + (KeywordScore(row) - EraDrag(row))
        + TenScore(heap, row, config) + RelationScore(row)

\* C22: build_year_signal returns a mapping with exactly one entry per input year
\* row, keyed by its year, whose value is cyclical + keyword score + actor score +
\* relation score of that row.
C22_OneEntryPerYearRow ==
    HasSignal =>
        /\ Cardinality(DOMAIN year_signal) = Len(liunian_df.rows)
        /\ \A i \in 1..Len(liunian_df.rows) :
              LET row == liunian_df.rows[i]
                  idx == Cardinality({j \in 1..Len(liunian_df.rows) :
                                         liunian_df.rows[j].year < row.year})
              IN  /\ row.year \in DOMAIN year_signal
                  /\ year_signal[row.year] = SignalOf(row, idx)

\* With no year repeated the mapping is as C22 states
OneEntryPerYearRowWhenYearsDiffer ==
    (HasSignal /\ ~DuplicateYears) => C22_OneEntryPerYearRow

----------------------------------------------------------------------------
(* Claims about Annotation.sentiment and the delta *)

HasPositive(outcome) == \E t \in POSITIVE_TOKENS : Occurrences(outcome, t) >= 1

HasNegative(outcome) == \E t \in NEGATIVE_TOKENS : Occurrences(outcome, t) >= 1

\* C26: Annotation.sentiment returns +1 if the outcome text contains a positive
\* token, else -1 if it contains a negative token, else +1 when intensity >= 0 and -1
\* when intensity < 0; it always returns exactly +1 or -1.
C26_SentimentCases ==
    Scored("sentiment") =>
        /\ ret.value \in {1, -1}
        /\ HasPositive(fn.self.outcome) => ret.value = 1
        /\ (~HasPositive(fn.self.outcome) /\ HasNegative(fn.self.outcome)) => ret.value = -1
        /\ (~HasPositive(fn.self.outcome) /\ ~HasNegative(fn.self.outcome)) =>
              ret.value = (IF fn.self.intensity >= 0 THEN 1 ELSE -1)

\* C26 witness: an outcome text without token and intensity 0 gives +1
C26_Witness ==
    /\ Scored("sentiment")
    /\ fn.self.outcome = <<"cheng">>
    /\ fn.self.intensity = 0
    /\ ret.value = 1

\* The last loop iteration appended an adjustment record
LastRecorded ==
    /\ InTuner /\ k >= 1
    /\ Len(adjustments) = Len(pre.adjustments) + 1

\* The delta of the record appended last
RecordedDelta == adjustments[Len(adjustments)][2]

\* C29: for an annotation whose outcome text holds no positive and no negative token
\* the delta computed by the tuner with a positive learning rate is
\* learning rate * |intensity|, never negative, also for a negative intensity; a
\* negative delta comes only from an outcome text with a token.
C29_NeutralOutcomeDeltaIsAbsolute ==
    (LastRecorded /\ learning_rate > 0) =>
        /\ (~HasPositive(LastAnn.outcome) /\ ~HasNegative(LastAnn.outcome)) =>
              /\ RecordedDelta = learning_rate * Abs(LastAnn.intensity)
              /\ RecordedDelta >= 0
        /\ RecordedDelta < 0 =>
              (HasPositive(LastAnn.outcome) \/ HasNegative(LastAnn.outcome))

\* C29 witness: outcome "", intensity -1.0, learning rate 0.05: the record holds +0.05
C29_Witness ==
    /\ LastRecorded
    /\ LastAnn.outcome = <<>>
    /\ LastAnn.intensity = -10
    /\ learning_rate = 5
    /\ RecordedDelta = 50

\* A value brought into [-0.8, 0.8]
Bounded(v) == IF v < -800 THEN -800 ELSE IF v > 800 THEN 800 ELSE v

\* The delta of an annotation: learning rate * sentiment * intensity
DeltaOf(ann) ==
    learning_rate * ann.intensity
        * (IF HasPositive(ann.outcome) THEN 1
           ELSE IF HasNegative(ann.outcome) THEN -1
           ELSE IF ann.intensity >= 0 THEN 1 ELSE -1)

\* The first two annotations target one year, whose first row carries a code of the
\* strong table, and both iterations are done
TwoOnOneYear ==
    /\ InTuner /\ k = 2 /\ error = ""
    /\ annotations[1].year = annotations[2].year
    /\ HasRowOfYear(liunian_df, annotations[1].year)
    /\ Strip(FirstRowOfYear(liunian_df, annotations[1].year).shishen)
          \in DOMAIN STRONG_TEN_GOD_WEIGHTS

\* C27: several annotations on one year are applied one by one in list order, each
\* adding its own delta to the current, already clamped entries and clamping again,
\* and each leaving its own adjustment record; none is merged, deduplicated or dropped.
C27_SameYearAppliedInListOrder ==
    TwoOnOneYear =>
        LET a == Strip(FirstRowOfYear(liunian_df, annotations[1].year).shishen)
            d1 == DeltaOf(annotations[1])
            d2 == DeltaOf(annotations[2])
        IN  /\ adjustments = << <<a, d1>>, <<a, d2>> >>
            /\ heap[strong][a] = Bounded(Bounded(STRONG_TEN_GOD_WEIGHTS[a] + d1) + d2)
            /\ heap[weak][a] = Bounded(Bounded(WEAK_TEN_GOD_WEIGHTS[a] + d1) + d2)

\* C27 witness: the same annotation twice on 2020 (a positive outcome, intensity 2.0,
\* learning rate 0.05) moves bi from 0.35 to 0.55 and leaves two equal records
C27_Witness ==
    /\ TwoOnOneYear
    /\ annotations[1] = annotations[2]
    /\ learning_rate = 5
    /\ adjustments = << <<<<"bi">>, 100>>, <<<<"bi">>, 100>> >>
    /\ heap[strong][<<"bi">>] = 550
    /\ heap[weak][<<"bi">>] = 550

\* Reached as well: learning rate 1.0, a positive then a negative outcome on one year:
\* 0.35 is clamped to 0.8 and then to -0.8
SameYearClampedTwice ==
    /\ TwoOnOneYear
    /\ learning_rate = 100
    /\ adjustments = << <<<<"bi">>, 2000>>, <<<<"bi">>, -2000>> >>
    /\ heap[strong][<<"bi">>] = -800

----------------------------------------------------------------------------
(* Claims about the order of the annotations *)

\* The annotation list in every order
Reorderings(anns) ==
    {[i \in 1..Len(anns) |-> anns[p[i]]] : p \in Orders(Len(anns))}

\* The annotation changes the entries of actor code a
AppliesTo(ann, a) ==
    /\ HasRowOfYear(liunian_df, ann.year)
    /\ Strip(FirstRowOfYear(liunian_df, ann.year).shishen) = a

\* The sum of the deltas of the annotations that change the entries of a
RECURSIVE SumFor(_, _)
SumFor(anns, a) ==
    IF anns = <<>> THEN 0
    ELSE (IF AppliesTo(Head(anns), a) THEN DeltaOf(Head(anns)) ELSE 0) + SumFor(Tail(anns), a)

\* Under no ordering does an entry leave [-0.8, 0.8] before clamping
NeverClamped ==
    \A p \in Reorderings(annotations), n \in 1..Len(annotations),
       a \in DOMAIN STRONG_TEN_GOD_WEIGHTS :
        /\ STRONG_TEN_GOD_WEIGHTS[a] + SumFor(SubSeq(p, 1, n), a) \in -800..800
        /\ WEAK_TEN_GOD_WEIGHTS[a] + SumFor(SubSeq(p, 1, n), a) \in -800..800

\* The tuner's loop is over and nothing was raised
TunerDone == InTuner /\ error = "" /\ k = Len(annotations)

\* In exact decimal arithmetic: when under no ordering of the annotations an entry
\* leaves [-0.8, 0.8] before clamping, the tables the tuner returns are the same for
\* every order of the list, and strong[a] - weak[a] is the difference of the defaults
OrderImmaterialInExactArithmetic ==
    (TunerDone /\ NeverClamped) =>
        /\ \A p \in Reorderings(annotations) :
              LET other == TuneFold(liunian_df, p, learning_rate, FreshHeap, <<>>)
              IN other.strong = heap[strong] /\ other.weak = heap[weak]
        /\ \A a \in DOMAIN STRONG_TEN_GOD_WEIGHTS :
              /\ heap[strong][a] = STRONG_TEN_GOD_WEIGHTS[a] + SumFor(annotations, a)
              /\ heap[strong][a] - heap[weak][a]
                    = STRONG_TEN_GOD_WEIGHTS[a] - WEAK_TEN_GOD_WEIGHTS[a]

\* The float tuner has returned
FloatsTuned == pc = "scored" /\ caller = "tune_ten_god_weights"

\* Every sum of the loop is in [-0.8, 0.8] before it is clamped
RECURSIVE FStays(_, _)
FStays(entry, anns) ==
    \/ anns = <<>>
    \/ LET value == FAdd(entry, FDelta(Head(anns)))
       IN FLeq(FNeg(F_0_8), value) /\ FLeq(value, F_0_8) /\ FStays(value, Tail(anns))

\* Under no ordering does an entry of the code leave [-0.8, 0.8] before clamping
NeverClampedFloats ==
    \A p \in Reorderings(fn.annotations) :
        FStays(STRONG_FLOATS[fn.shishen], p) /\ FStays(WEAK_FLOATS[fn.shishen], p)

\* x - y, exactly
ExactSub(x, y) == ExactAdd(x, FNeg(y))

\* |x - y| <= n * 2^-53, the rounding of n additions on either side
Within(x, y, n) == LET d == ExactSub(x, y) IN d.hi = 0 /\ d.lo <= n * 128

\* C30 as stated: when under no ordering an entry leaves [-0.8, 0.8] before clamping,
\* the strong and weak entries the tuner returns are the same for every permutation of
\* the annotation list, and strong[a] - weak[a] equals the difference of the defaults.
C30_SameFloatsInEveryOrder ==
    (FloatsTuned /\ NeverClampedFloats) =>
        /\ \A p \in Reorderings(fn.annotations) :
              /\ FTuned(STRONG_FLOATS[fn.shishen], p) = ret.strong
              /\ FTuned(WEAK_FLOATS[fn.shishen], p) = ret.weak
        /\ ExactSub(ret.strong, ret.weak)
              = ExactSub(STRONG_FLOATS[fn.shishen], WEAK_FLOATS[fn.shishen])

\* C30 amended: when under no ordering an entry leaves [-0.8, 0.8] before clamping,
\* the strong and weak entries returned for any two permutations of a list of n
\* annotations differ by at most n * 2^-53, and strong[a] - weak[a] differs from the
\* difference of the defaults by at most n * 2^-53.
C30_OrderImmaterialUpToRounding ==
    (FloatsTuned /\ NeverClampedFloats) =>
        LET n == Len(fn.annotations) IN
        /\ \A p \in Reorderings(fn.annotations) :
              /\ Within(FTuned(STRONG_FLOATS[fn.shishen], p), ret.strong, n)
              /\ Within(FTuned(WEAK_FLOATS[fn.shishen], p), ret.weak, n)
        /\ Within(ExactSub(ret.strong, ret.weak),
                  ExactSub(STRONG_FLOATS[fn.shishen], WEAK_FLOATS[fn.shishen]), n)

\* C30 witness: guan tuned by +0.05 then +0.1, never clamped; the other order returns
\* a strong entry that differs in the last bits
C30_Witness ==
    /\ FloatsTuned /\ NeverClampedFloats
    /\ fn.shishen = <<"guan">>
    /\ Len(fn.annotations) = 2
    /\ FDelta(fn.annotations[1]) = F_0_05
    /\ FDelta(fn.annotations[2]) = ExactAdd(F_0_05, F_0_05)
    /\ FTuned(STRONG_FLOATS[<<"guan">>], <<fn.annotations[2], fn.annotations[1]>>) # ret.strong

----------------------------------------------------------------------------
(* app.py: the session state across runs of the script *)

moduleVars == <<heap, pc, caller, liunian_df, annotations, learning_rate, k, strong, weak,
                adjustments, pre, error, dayun_df, config, base, year_signal, life_df,
                ohlc, ohlc_arg, sort_ties, fn, ret, previous>>

\* A row of pd.DataFrame(liunian) as parse_dayun_liunian builds it: age, year, gz, desc
ParsedRow(age, year, desc) == [Row(year, age, <<>>, NoRelations) EXCEPT !.desc = desc]

\* A row of pd.DataFrame(dayun): start_age, gz, desc
ParsedEra(start_age, desc) == [start_age |-> start_age, desc |-> desc, relations |-> NoRelations]

\* {k: v * multiplier for k, v in table.items()}, the multiplier in tenths
Scaled(table, multiplier) == [key \in DOMAIN table |-> (table[key] * multiplier) \div 10]

\* The keyword arguments the run handler and BacktestConfig give build_year_signal
AppConfig(params) ==
    [base_up |-> params.up, base_down |-> params.down, cycle |-> params.cycle,
     boost |-> Some(Scaled(DEFAULT_BOOST, params.keyword_boost)),
     risk |-> Some(Scaled(DEFAULT_RISK, params.keyword_risk)),
     dayun_risk_weight |-> params.dayun_drag, strength_index |-> params.strength_index,
     special_pattern |-> params.special_pattern,
     relation_trigger |-> params.relation_trigger, ten_god_weight |-> params.ten_god_weight]

\* if run: the tables parsed from the output of bazi.py are sorted, the pipeline is run
\* with the sidebar's parameters and the result is stored; sorting a table built from
\* no rows raises KeyError. Nothing else of the session is assigned.
RunPipeline(df_dayun, df_liunian, params) ==
    IF ~df_dayun.has_columns \/ ~df_liunian.has_columns
    THEN /\ script_run' = [widget |-> "run", assigned |-> {}, raised |-> "KeyError"]
         /\ UNCHANGED state
    ELSE \E e \in SortedByStartAge(df_dayun.rows), s \in SortedByYear(df_liunian.rows) :
         LET signal == build_year_signal(heap, s, e, AppConfig(params))
             life == build_life_index(s, signal, params.base)
         IN /\ state' = [state EXCEPT !.bazi_result =
                            [stored |-> TRUE, df_dayun |-> Table(e), df_liunian |-> Table(s),
                             life |-> life, ohlc |-> to_decade_ohlc(life),
                             params |-> params]]
            /\ script_run' = [widget |-> "run", assigned |-> {"bazi_result"}, raised |-> ""]

\* serialize_annotations: the fields of each annotation
serialize_annotations(anns) ==
    [i \in 1..Len(anns) |-> [year |-> anns[i].year, label |-> anns[i].label,
                             outcome |-> anns[i].outcome, intensity |-> anns[i].intensity]]

\* deserialize_annotations: year, label, outcome and intensity of each item
deserialize_annotations(data) ==
    [i \in 1..Len(data) |-> [year |-> data[i].year, label |-> data[i].label,
                             outcome |-> data[i].outcome, intensity |-> data[i].intensity]]

\* The fields of the dataclass Annotation, and the keywords the form's handler passes
AnnotationFields == {"year", "label", "outcome", "intensity"}

FormCallNames == {"year", "label", "outcome", "note", "intensity"}

\* The years the form offers: from the first to the last year of the life table
FormYears(life) ==
    LET years == {life[i].year : i \in 1..Len(life)}
        min_year == CHOOSE y \in years : \A z \in years : y <= z
        max_year == CHOOSE y \in years : \A z \in years : z <= y
    IN min_year..max_year

\* if submitted: Annotation(year=..., label=..., outcome=..., note=..., intensity=...) is
\* appended to the deserialized list and the list is stored; the constructor call
\* raises TypeError when a keyword is no field of Annotation
AddAnnotation(ann) ==
    /\ state.bazi_result.stored
    /\ IF ~BindsTo(FormCallNames, AnnotationFields)
       THEN /\ script_run' = [widget |-> "add-annotation", assigned |-> {},
                              raised |-> "TypeError"]
            /\ UNCHANGED state
       ELSE /\ state' = [state EXCEPT !.annotations =
                            serialize_annotations(
                                Append(deserialize_annotations(state.annotations), ann))]
            /\ script_run' = [widget |-> "add-annotation", assigned |-> {"annotations"},
                              raised |-> ""]

\* The buttons below the annotation table are drawn only when the list is not empty
ButtonsDrawn ==
    /\ state.bazi_result.stored
    /\ deserialize_annotations(state.annotations) # <<>>

\* if st.button("清空标记"): state["annotations"] = []; state["backtest_result"] = None
ClearAnnotations ==
    /\ ButtonsDrawn
    /\ state' = [state EXCEPT !.annotations = <<>>, !.backtest_result = NotStored]
    /\ script_run' = [widget |-> "clear-annotations",
                      assigned |-> {"annotations", "backtest_result"}, raised |-> ""]

\* if annotations and st.button("根据标记回测并拟合权重"): apply_feedback_loop on the
\* stored tables, the annotations and the stored parameters, learning_rate 0.05; its
\* result is stored unless the call raises
RunBacktest ==
    /\ ButtonsDrawn
    /\ IF ~BindsTo(ApplyCallNames, BuildYearSignalParams)
       THEN /\ script_run' = [widget |-> "run-backtest", assigned |-> {},
                              raised |-> "TypeError"]
            /\ UNCHANGED state
       ELSE LET result == state.bazi_result
                anns == deserialize_annotations(state.annotations)
                tuned == TuneFold(result.df_liunian, anns, 5, FreshHeap, <<>>)
                signal == build_year_signal(heap, result.df_liunian.rows,
                                            result.df_dayun.rows, AppConfig(result.params))
            IN /\ state' = [state EXCEPT !.backtest_result =
                               [stored |-> TRUE,
                                tuned_life |-> build_life_index(result.df_liunian.rows, signal,
                                                                result.params.base),
                                strong_weights |-> tuned.strong,
                                weak_weights |-> tuned.weak,
                                adjustments |-> tuned.adjustments]]
               /\ script_run' = [widget |-> "run-backtest",
                                 assigned |-> {"backtest_result"}, raised |-> ""]

MaxAppRows == 2     \* year rows in the output of bazi.py

AppYears == {2020, 2021}

\* Year rows with an empty description, and one with the risk key hai in it
AppRowInputs ==
    {ParsedRow(y - 1990, y, <<>>) : y \in AppYears} \cup {ParsedRow(30, 2020, <<"hai">>)}

\* What parse_dayun_liunian returns for the years: a table without columns when no
\* line matched
AppYearTables == {NoArgs} \cup {Table(r) : r \in SeqsUpTo(AppRowInputs, MaxAppRows) \ {<<>>}}

\* No era line matched, or one era from age 30 with the risk key hai in its description
AppEraTables == {NoArgs, Table(<<ParsedEra(30, <<"hai">>)>>)}

\* The sidebar: up 2.0, down 1.0, cycle 2 or 6, keyword_risk 1.0 or 0.5, dayun_drag 1.0,
\* the other widgets at their defaults
AppParams ==
    {[up |-> 2 * Micro, down |-> Micro, cycle |-> c, keyword_boost |-> 10,
      keyword_risk |-> r, dayun_drag |-> 10 * Deci, strength_index |-> 5,
      special_pattern |-> None, relation_trigger |-> 8, ten_god_weight |-> 10,
      base |-> 100] : c \in {2, 6}, r \in {10, 5}}

\* What the form submits
FormInputs(life) ==
    {[year |-> y, label |-> <<"jie", "hun">>, outcome |-> o, intensity |-> i] :
        y \in FormYears(life),
        o \in {<<"zheng", "xiang", " ", "/", " ", "da", "xi">>,
               <<"fu", "xiang", " ", "/", " ", "da", "bei">>},
        i \in {5, 10, 20}}

PressRun ==
    /\ \E df_dayun \in AppEraTables, df_liunian \in AppYearTables, params \in AppParams :
          RunPipeline(df_dayun, df_liunian, params)
    /\ UNCHANGED moduleVars

SubmitAnnotation ==
    /\ state.bazi_result.stored
    /\ \E ann \in FormInputs(state.bazi_result.life) : AddAnnotation(ann)
    /\ UNCHANGED moduleVars

\* The runs of the script that a user of the page can trigger
NextApp ==
    \/ PressRun
    \/ SubmitAnnotation

SpecApp == InitTuner /\ [][NextApp]_vars

----------------------------------------------------------------------------
(* Claims about the session state *)

\* A run of the script replaced the stored pipeline result by one with other rows or
\* parameters, or changed the stored annotations
SessionInputsChanged ==
    \/ state'.annotations # state.annotations
    \/ /\ state.bazi_result.stored
       /\ state'.bazi_result # state.bazi_result

\* C28: every run of the script that changes the annotations, the configuration or
\* the input rows either recomputes or clears the stored backtest result, so that a
\* stored backtest_result that is not None was computed from the current annotation
\* list and the current pipeline run.
C28_ChangesInvalidateBacktest ==
    [][SessionInputsChanged => "backtest_result" \in script_run'.assigned]_vars

\* No annotation is ever stored: the form's handler raises before it assigns
NoAnnotationIsStored == state.annotations = <<>> /\ ~ButtonsDrawn

\* No backtest result is ever stored
NoBacktestResultIsStored == ~state.backtest_result.stored

\* A second pipeline run with other parameters has replaced the first
PipelineRunReplaced ==
    /\ state.bazi_result.stored
    /\ state.bazi_result.params.cycle = 6
    /\ script_run = [widget |-> "run", assigned |-> {"bazi_result"}, raised |-> ""]

\* The form was submitted and its handler raised
FormSubmitRaised ==
    script_run = [widget |-> "add-annotation", assigned |-> {}, raised |-> "TypeError"]

=============================================================================
